---- MODULE Spec2Model ----
(***************************************************************************)
(* The Referee: the scoring engine (compare), the explanation generator    *)
(* (generate, generatePivot) and the POST /api/compare handler with its    *)
(* optional AI step.                                                       *)
(*                                                                         *)
(* Numbers: the weights table stores DECIMAL(3,2) values; they are kept    *)
(* here as integer hundredths (0.30 is 30, a modifier 1.5 is 150), so an   *)
(* effective weight is in units of 1/10000 and every sum is exact.         *)
(* Texts built with template literals are kept as the sequence of their    *)
(* parts (literal pieces and interpolated values), in order.               *)
(***************************************************************************)
EXTENDS Integers, Sequences, FiniteSets, TLC

VARIABLES
    db,                 \* the database tables and the configured API keys
    pc,                 \* position of the caller / the request handler
    optionIds,          \* the option ids of the request
    options,            \* OptionRow[] handed to compare (fetch order)
    attributes,         \* AttributeRow[] (UNIQUE(option_id, attribute_type))
    weights,            \* WeightRow[] in row order
    optionIntegrations, \* OptionIntegrationRow[]
    constraints,        \* Constraints of the request
    comparison,         \* ComparisonResult, or None
    explanation,        \* TradeOffExplanation, or None
    pivot,              \* PivotResult, or None
    useAI,              \* req.query.useAI === 'true'
    ai,                 \* the AI step: provider calls made, reply text, parsed result
    response,           \* what was sent on res, or None
    resolved,           \* what getEffectiveWeights and getPrimaryAttribute returned, or None
    uiState,            \* the state of the useComparison hook (browser), or None
    uiConstraints,      \* the state of the useConstraints hook (browser), or None
    rendered,           \* the constraints prop ConstraintPanel got at the last render
    adminReqs           \* the admin requests in flight, each with its position

vars == <<db, pc, optionIds, options, attributes, weights, optionIntegrations,
          constraints, comparison, explanation, pivot, useAI, ai, response, resolved,
          uiState, uiConstraints, rendered, adminReqs>>

None == [none |-> TRUE]

----------------------------------------------------------------------------
(* Fixed tables *)

AttributeTypes == <<"cost_model", "scalability", "complexity", "maintenance">>

AttributeTypeSet == {AttributeTypes[i] : i \in 1..Len(AttributeTypes)}

Ratings == {"low", "medium", "high"}

Priorities == {"low", "medium", "high"}

RATING_SCORES == [low |-> 1, medium |-> 2, high |-> 3]

ATTRIBUTE_ICONS == [cost_model |-> "icon-money", scalability |-> "icon-chart",
                    complexity |-> "icon-gear", maintenance |-> "icon-wrench"]

ATTRIBUTE_NAMES == [cost_model |-> "cost efficiency", scalability |-> "scalability",
                    complexity |-> "operational simplicity",
                    maintenance |-> "maintenance overhead"]

RATING_DESCRIPTIONS ==
    [cost_model |-> [high |-> "excellent cost efficiency",
                     medium |-> "moderate cost structure",
                     low |-> "higher cost requirements"],
     scalability |-> [high |-> "excellent scalability characteristics",
                      medium |-> "adequate scaling capabilities",
                      low |-> "limited scalability options"],
     complexity |-> [high |-> "straightforward operations",
                     medium |-> "manageable complexity",
                     low |-> "significant operational complexity"],
     maintenance |-> [high |-> "minimal maintenance burden",
                      medium |-> "standard maintenance needs",
                      low |-> "substantial maintenance requirements"]]

----------------------------------------------------------------------------
(* Helpers for arrays *)

Map(f(_), s) == [i \in 1..Len(s) |-> f(s[i])]

Range(s) == {s[i] : i \in 1..Len(s)}

\* Array.prototype.find over a sequence: the first element satisfying P, or None
Find(s, P(_)) ==
    LET idx == {i \in 1..Len(s) : P(s[i])}
    IN  IF idx = {} THEN None
        ELSE s[CHOOSE i \in idx : \A j \in idx : i <= j]

\* Math.round(n / d) for integers n, d with d # 0: floor(n/d + 1/2)
MathRound(n, d) ==
    IF d > 0 THEN (2 * n + d) \div (2 * d)
    ELSE (2 * (0 - n) + (0 - d)) \div (2 * (0 - d))

RECURSIVE SumOver(_, _)
SumOver(S, f) ==
    IF S = {} THEN 0
    ELSE LET x == CHOOSE y \in S : TRUE
         IN  f[x] + SumOver(S \ {x}, f)

----------------------------------------------------------------------------
(* Weight resolver *)

getScalabilityModifierKey(priority) ==
    CASE priority = "low" -> "scalability_low_modifier"
      [] priority = "medium" -> "scalability_medium_modifier"
      [] priority = "high" -> "scalability_high_modifier"

\* faulty variant: the priority modifier is not applied
calculateEffectiveWeight_NoModifier(weight, c) ==
    weight.default_weight * 100

\* Number(weight[modifierKey]) || 1.0 : a modifier of 0 is replaced by 1.0
calculateEffectiveWeight(weight, c) ==
    LET modifierKey == getScalabilityModifierKey(c.scalabilityPriority)
        modifier == IF weight[modifierKey] = 0 THEN 100 ELSE weight[modifierKey]
    IN  weight.default_weight * modifier

\* Map<string, number> in insertion order, as a sequence of [attr, weight];
\* Map.set on a key already present replaces the value in place.
RECURSIVE MapSetAll(_, _, _)
MapSetAll(m, ws, c) ==
    IF ws = <<>> THEN m
    ELSE LET w == Head(ws)
             e == [attr |-> w.attribute_type, weight |-> calculateEffectiveWeight(w, c)]
             at == {i \in 1..Len(m) : m[i].attr = e.attr}
             m2 == IF at = {} THEN Append(m, e)
                   ELSE [i \in 1..Len(m) |-> IF i \in at THEN e ELSE m[i]]
         IN  MapSetAll(m2, Tail(ws), c)

getEffectiveWeights(ws, c) == MapSetAll(<<>>, ws, c)

RECURSIVE PrimaryScan(_, _, _)
PrimaryScan(entries, maxWeight, primaryAttr) ==
    IF entries = <<>> THEN primaryAttr
    ELSE LET e == Head(entries)
         IN  IF e.weight > maxWeight
             THEN PrimaryScan(Tail(entries), e.weight, e.attr)
             ELSE PrimaryScan(Tail(entries), maxWeight, primaryAttr)

getPrimaryAttribute(ws, c) ==
    PrimaryScan(getEffectiveWeights(ws, c), 0, "scalability")

----------------------------------------------------------------------------
(* Scoring engine *)

\* faulty variant: an option without any mapping is treated like any other
optionSupportsRequiredIntegrations_NoUnmappedRule(optionId, optInts, requiredIntegrations) ==
    IF requiredIntegrations = {} THEN TRUE
    ELSE LET supportedIntegrationIds ==
                 {oi.integration_id : oi \in {x \in optInts : x.option_id = optionId}}
         IN  \A reqId \in requiredIntegrations : reqId \in supportedIntegrationIds

optionSupportsRequiredIntegrations(optionId, optInts, requiredIntegrations) ==
    IF requiredIntegrations = {} THEN TRUE
    ELSE LET supportedIntegrationIds ==
                 {oi.integration_id : oi \in {x \in optInts : x.option_id = optionId}}
         IN  IF supportedIntegrationIds = {} THEN TRUE
             ELSE \A reqId \in requiredIntegrations : reqId \in supportedIntegrationIds

toAttributeValue(attr) ==
    [value |-> attr.value, rating |-> attr.rating,
     icon |-> ATTRIBUTE_ICONS[attr.attribute_type]]

\* faulty variant: Math.floor in place of Math.round
calculateOptionScore_Floor(attrs, ws, c) ==
    LET weighted == {a \in attrs :
                        Find(ws, LAMBDA w : w.attribute_type = a.attribute_type) # None}
        ew == [a \in weighted |->
                  calculateEffectiveWeight(
                      Find(ws, LAMBDA w : w.attribute_type = a.attribute_type), c)]
        totalScore == SumOver(weighted, [a \in weighted |-> RATING_SCORES[a.rating] * ew[a]])
        totalWeight == SumOver(weighted, ew)
    IN  IF totalWeight = 0 THEN 0
        ELSE IF totalWeight > 0 THEN (100 * totalScore) \div (totalWeight * 3)
        ELSE (0 - 100 * totalScore) \div (0 - totalWeight * 3)

\* attrs: the option's attribute rows; rows without a weight row are skipped
calculateOptionScore(attrs, ws, c) ==
    LET weighted == {a \in attrs :
                        Find(ws, LAMBDA w : w.attribute_type = a.attribute_type) # None}
        ew == [a \in weighted |->
                  calculateEffectiveWeight(
                      Find(ws, LAMBDA w : w.attribute_type = a.attribute_type), c)]
        totalScore == SumOver(weighted, [a \in weighted |-> RATING_SCORES[a.rating] * ew[a]])
        totalWeight == SumOver(weighted, ew)
    IN  IF totalWeight = 0 THEN 0
        ELSE MathRound(100 * totalScore, totalWeight * 3)

buildAttributeMatrix(opts, attrs) ==
    [attrType \in AttributeTypeSet |->
        LET present == {o \in Range(opts) :
                           \E a \in attrs : a.option_id = o.id /\ a.attribute_type = attrType}
        IN  [oid \in {o.id : o \in present} |->
                toAttributeValue(CHOOSE a \in attrs :
                                     a.option_id = oid /\ a.attribute_type = attrType)]]

\* faulty variant: a missing attribute is scored as if it were rated medium
buildOptionComparison_PlaceholderScored(option, attrs, ws, c) ==
    LET optionAttrs == {a \in attrs : a.option_id = option.id}
        getAttrValue(type) ==
            IF \E a \in optionAttrs : a.attribute_type = type
            THEN toAttributeValue(CHOOSE a \in optionAttrs : a.attribute_type = type)
            ELSE [value |-> "N/A", rating |-> "medium", icon |-> "icon-question"]
        placeholders ==
            {[option_id |-> option.id, attribute_type |-> t, value |-> "N/A",
              rating |-> "medium"] :
                t \in {u \in AttributeTypeSet :
                           ~ \E a \in optionAttrs : a.attribute_type = u}}
    IN  [id |-> option.id,
         name |-> option.name,
         description |-> option.description,
         attributes |-> [costModel |-> getAttrValue("cost_model"),
                         scalability |-> getAttrValue("scalability"),
                         complexity |-> getAttrValue("complexity"),
                         maintenance |-> getAttrValue("maintenance")],
         score |-> calculateOptionScore(optionAttrs \cup placeholders, ws, c)]

buildOptionComparison(option, attrs, ws, c) ==
    LET optionAttrs == {a \in attrs : a.option_id = option.id}
        getAttrValue(type) ==
            IF \E a \in optionAttrs : a.attribute_type = type
            THEN toAttributeValue(CHOOSE a \in optionAttrs : a.attribute_type = type)
            ELSE [value |-> "N/A", rating |-> "medium", icon |-> "icon-question"]
    IN  [id |-> option.id,
         name |-> option.name,
         description |-> option.description,
         attributes |-> [costModel |-> getAttrValue("cost_model"),
                         scalability |-> getAttrValue("scalability"),
                         complexity |-> getAttrValue("complexity"),
                         maintenance |-> getAttrValue("maintenance")],
         score |-> calculateOptionScore(optionAttrs, ws, c)]

compare(opts, attrs, ws, optInts, c) ==
    LET filteredOptions ==
            SelectSeq(opts, LAMBDA option :
                optionSupportsRequiredIntegrations(option.id, optInts,
                                                   c.requiredIntegrations))
    IN  [options |-> Map(LAMBDA option : buildOptionComparison(option, attrs, ws, c),
                         filteredOptions),
         matrix |-> buildAttributeMatrix(filteredOptions, attrs)]

----------------------------------------------------------------------------
(* Explanation generator *)

\* faulty variant: no fallback phrase, the list may be empty
getStrengths_NoFallback(option) ==
    LET attrs == option.attributes
    IN  (IF attrs.costModel.rating = "high"
         THEN <<RATING_DESCRIPTIONS.cost_model.high>> ELSE <<>>) \o
        (IF attrs.scalability.rating = "high"
         THEN <<RATING_DESCRIPTIONS.scalability.high>> ELSE <<>>) \o
        (IF attrs.complexity.rating = "high"
         THEN <<RATING_DESCRIPTIONS.complexity.high>> ELSE <<>>) \o
        (IF attrs.maintenance.rating = "high"
         THEN <<RATING_DESCRIPTIONS.maintenance.high>> ELSE <<>>)

getStrengths(option) ==
    LET attrs == option.attributes
        strengths ==
            (IF attrs.costModel.rating = "high"
             THEN <<RATING_DESCRIPTIONS.cost_model.high>> ELSE <<>>) \o
            (IF attrs.scalability.rating = "high"
             THEN <<RATING_DESCRIPTIONS.scalability.high>> ELSE <<>>) \o
            (IF attrs.complexity.rating = "high"
             THEN <<RATING_DESCRIPTIONS.complexity.high>> ELSE <<>>) \o
            (IF attrs.maintenance.rating = "high"
             THEN <<RATING_DESCRIPTIONS.maintenance.high>> ELSE <<>>)
    IN  IF Len(strengths) > 0 THEN strengths
        ELSE <<"balanced performance across attributes">>

getWeaknesses(option) ==
    LET attrs == option.attributes
        weaknesses ==
            (IF attrs.costModel.rating = "low"
             THEN <<RATING_DESCRIPTIONS.cost_model.low>> ELSE <<>>) \o
            (IF attrs.scalability.rating = "low"
             THEN <<RATING_DESCRIPTIONS.scalability.low>> ELSE <<>>) \o
            (IF attrs.complexity.rating = "low"
             THEN <<RATING_DESCRIPTIONS.complexity.low>> ELSE <<>>) \o
            (IF attrs.maintenance.rating = "low"
             THEN <<RATING_DESCRIPTIONS.maintenance.low>> ELSE <<>>)
    IN  IF Len(weaknesses) > 0 THEN weaknesses
        ELSE <<"no significant weaknesses identified">>

\* faulty variant: the score rules are tried before the priority rules
generateFitReason_ScoreFirst(option, c) ==
    LET scalabilityPriority == c.scalabilityPriority
        scalabilityRating == option.attributes.scalability.rating
    IN  IF option.score >= 70
        THEN <<"Good overall fit based on weighted attribute scores">>
        ELSE IF option.score >= 50
        THEN <<"Moderate fit with some trade-offs to consider">>
        ELSE IF scalabilityPriority = "high" /\ scalabilityRating = "high"
        THEN <<"Strong fit for high-scalability requirements with ",
               scalabilityRating, " scalability rating">>
        ELSE IF scalabilityPriority = "low" /\ option.attributes.costModel.rating = "high"
        THEN <<"Well-suited for cost-conscious scenarios with excellent cost efficiency">>
        ELSE <<"May require careful consideration of trade-offs for your constraints">>

generateFitReason(option, c) ==
    LET scalabilityPriority == c.scalabilityPriority
        scalabilityRating == option.attributes.scalability.rating
    IN  IF scalabilityPriority = "high" /\ scalabilityRating = "high"
        THEN <<"Strong fit for high-scalability requirements with ",
               scalabilityRating, " scalability rating">>
        ELSE IF scalabilityPriority = "low" /\ option.attributes.costModel.rating = "high"
        THEN <<"Well-suited for cost-conscious scenarios with excellent cost efficiency">>
        ELSE IF option.score >= 70
        THEN <<"Good overall fit based on weighted attribute scores">>
        ELSE IF option.score >= 50
        THEN <<"Moderate fit with some trade-offs to consider">>
        ELSE <<"May require careful consideration of trade-offs for your constraints">>

analyzeOption(option, c) ==
    [optionId |-> option.id,
     optionName |-> option.name,
     strengths |-> getStrengths(option),
     weaknesses |-> getWeaknesses(option),
     fitScore |-> option.score,
     fitReason |-> generateFitReason(option, c)]

scalabilityImpacts ==
    [low |-> "Lower scalability priority reduces weight on scaling capabilities, favoring cost efficiency",
     medium |-> "Balanced scalability priority maintains equal consideration across attributes",
     high |-> "High scalability priority increases weight on scaling capabilities significantly"]

\* faulty variant: the scalability entry does not follow the priority
generateConstraintImpacts_FixedText(c) ==
    <<[constraint |-> "Budget Range",
       impact |-> <<"Budget constraints ($", ToString(c.budgetMin), "-$",
                    ToString(c.budgetMax), ") influence cost model weighting">>],
      [constraint |-> "Scalability Priority",
       impact |-> <<scalabilityImpacts.medium>>]>> \o
    (IF Cardinality(c.requiredIntegrations) > 0
     THEN <<[constraint |-> "Required Integrations",
             impact |-> <<ToString(Cardinality(c.requiredIntegrations)),
                          " required integration(s) filter available options">>]>>
     ELSE <<>>)

generateConstraintImpacts(c) ==
    <<[constraint |-> "Budget Range",
       impact |-> <<"Budget constraints ($", ToString(c.budgetMin), "-$",
                    ToString(c.budgetMax), ") influence cost model weighting">>],
      [constraint |-> "Scalability Priority",
       impact |-> <<scalabilityImpacts[c.scalabilityPriority]>>]>> \o
    (IF Cardinality(c.requiredIntegrations) > 0
     THEN <<[constraint |-> "Required Integrations",
             impact |-> <<ToString(Cardinality(c.requiredIntegrations)),
                          " required integration(s) filter available options">>]>>
     ELSE <<>>)

Abs(x) == IF x < 0 THEN 0 - x ELSE x

\* faulty variant: the higher-scoring option is named without the "However" clause
generateSummary_Unconditional(cmp, c) ==
    LET opts == cmp.options
    IN  IF Len(opts) < 2
        THEN <<"Insufficient options available for comparison based on current constraints.">>
        ELSE LET optionA == opts[1]
                 optionB == opts[2]
                 scoreDiff == Abs(optionA.score - optionB.score)
                 higher == IF optionA.score > optionB.score THEN optionA ELSE optionB
                 lower == IF optionA.score > optionB.score THEN optionB ELSE optionA
             IN  IF scoreDiff < 10
                 THEN <<optionA.name, " and ", optionB.name,
                        " are closely matched under your current constraints. ",
                        "The decision depends on which specific attributes matter most to your use case.">>
                 ELSE <<"Based on your constraints, ", higher.name,
                        " shows a stronger fit (score: ", ToString(higher.score), ") ",
                        "compared to ", lower.name, " (score: ", ToString(lower.score),
                        ").">>

generateSummary(cmp, c) ==
    LET opts == cmp.options
    IN  IF Len(opts) < 2
        THEN <<"Insufficient options available for comparison based on current constraints.">>
        ELSE LET optionA == opts[1]
                 optionB == opts[2]
                 scoreDiff == Abs(optionA.score - optionB.score)
                 higher == IF optionA.score > optionB.score THEN optionA ELSE optionB
                 lower == IF optionA.score > optionB.score THEN optionB ELSE optionA
             IN  IF scoreDiff < 10
                 THEN <<optionA.name, " and ", optionB.name,
                        " are closely matched under your current constraints. ",
                        "The decision depends on which specific attributes matter most to your use case.">>
                 ELSE <<"Based on your constraints, ", higher.name,
                        " shows a stronger fit (score: ", ToString(higher.score), ") ",
                        "compared to ", lower.name, " (score: ", ToString(lower.score),
                        "). However, ", lower.name, " may be preferable ",
                        "if certain attributes are more critical to your specific needs.">>

generate(cmp, c) ==
    [summary |-> generateSummary(cmp, c),
     optionAnalysis |-> Map(LAMBDA option : analyzeOption(option, c), cmp.options),
     constraintImpact |-> generateConstraintImpacts(c)]

\* the loop of generatePivot that keeps the highest non-primary effective weight
RECURSIVE SecondaryScan(_, _, _, _)
SecondaryScan(entries, primaryAttr, secondHighestWeight, secondaryAttr) ==
    IF entries = <<>> THEN secondaryAttr
    ELSE LET e == Head(entries)
         IN  IF e.attr # primaryAttr /\ e.weight > secondHighestWeight
             THEN SecondaryScan(Tail(entries), primaryAttr, e.weight, e.attr)
             ELSE SecondaryScan(Tail(entries), primaryAttr, secondHighestWeight,
                                secondaryAttr)

getSecondaryAttribute(ws, c) ==
    SecondaryScan(getEffectiveWeights(ws, c), getPrimaryAttribute(ws, c), 0, "cost_model")

attrKeyMap == [cost_model |-> "costModel", scalability |-> "scalability",
               complexity |-> "complexity", maintenance |-> "maintenance"]

\* faulty variant: the identifier is used as it is
displayName_Raw(attr) == attr

\* ATTRIBUTE_NAMES[attr] || attr
displayName(attr) ==
    IF attr \in DOMAIN ATTRIBUTE_NAMES THEN ATTRIBUTE_NAMES[attr] ELSE attr

\* faulty variant: the secondary branch keeps recommendForSecondary = optionA.name and
\* the final guard is missing
pivotRecommendations_Unguarded(optionA, optionB, primaryKey, secondaryKey) ==
    LET aRatingPrimary == optionA.attributes[primaryKey].rating
        bRatingPrimary == optionB.attributes[primaryKey].rating
        aRatingSecondary == optionA.attributes[secondaryKey].rating
        bRatingSecondary == optionB.attributes[secondaryKey].rating
        ratingValue == [low |-> 1, medium |-> 2, high |-> 3]
    IN  IF ratingValue[bRatingPrimary] > ratingValue[aRatingPrimary]
        THEN [primary |-> optionB.name, secondary |-> optionA.name]
        ELSE IF ratingValue[aRatingSecondary] > ratingValue[bRatingSecondary]
        THEN [primary |-> optionA.name, secondary |-> optionA.name]
        ELSE [primary |-> optionA.name, secondary |-> optionB.name]

\* the recommendation part of generatePivot: the names put after "choose"
\* and after "otherwise choose"
pivotRecommendations(optionA, optionB, primaryKey, secondaryKey) ==
    LET aRatingPrimary == optionA.attributes[primaryKey].rating
        bRatingPrimary == optionB.attributes[primaryKey].rating
        aRatingSecondary == optionA.attributes[secondaryKey].rating
        bRatingSecondary == optionB.attributes[secondaryKey].rating
        ratingValue == [low |-> 1, medium |-> 2, high |-> 3]
        r1 == IF ratingValue[bRatingPrimary] > ratingValue[aRatingPrimary]
              THEN [primary |-> optionB.name, secondary |-> optionA.name]
              ELSE IF ratingValue[aRatingSecondary] > ratingValue[bRatingSecondary]
              THEN [primary |-> optionA.name,
                    \* recommendForSecondary = optionA.name, reset because
                    \* recommendForPrimary === optionA.name
                    secondary |-> optionB.name]
              ELSE [primary |-> optionA.name, secondary |-> optionB.name]
    IN  IF r1.primary = r1.secondary
        THEN [primary |-> r1.primary,
              secondary |-> IF r1.primary = optionA.name THEN optionB.name
                            ELSE optionA.name]
        ELSE r1

\* faulty variant: optionA is "N/A" whatever survived
unablePivot_AllNA(opts) ==
    [statement |-> <<"Unable to generate pivot statement with fewer than two options.">>,
     primaryFactor |-> "N/A",
     secondaryFactor |-> "N/A",
     optionA |-> "N/A",
     optionB |-> "N/A"]

\* what generatePivot returns for fewer than two options;
\* optionA: options[0]?.name || 'N/A'
unablePivot(opts) ==
    [statement |-> <<"Unable to generate pivot statement with fewer than two options.">>,
     primaryFactor |-> "N/A",
     secondaryFactor |-> "N/A",
     optionA |-> IF Len(opts) >= 1 /\ opts[1].name # "" THEN opts[1].name
                 ELSE "N/A",
     optionB |-> "N/A"]

generatePivot(cmp, c, ws) ==
    LET opts == cmp.options
    IN  IF Len(opts) < 2
        THEN unablePivot(opts)
        ELSE LET optionA == opts[1]
                 optionB == opts[2]
                 primaryAttr == getPrimaryAttribute(ws, c)
                 secondaryAttr == getSecondaryAttribute(ws, c)
                 primaryName == displayName(primaryAttr)
                 secondaryName == displayName(secondaryAttr)
                 primaryKey == IF primaryAttr \in DOMAIN attrKeyMap
                               THEN attrKeyMap[primaryAttr] ELSE "scalability"
                 secondaryKey == IF secondaryAttr \in DOMAIN attrKeyMap
                                 THEN attrKeyMap[secondaryAttr] ELSE "costModel"
                 rec == pivotRecommendations(optionA, optionB, primaryKey, secondaryKey)
             IN  [statement |-> <<"If ", primaryName, " matters more than ",
                                  secondaryName, ", choose ", rec.primary,
                                  "; otherwise choose ", rec.secondary>>,
                  primaryFactor |-> primaryName,
                  secondaryFactor |-> secondaryName,
                  optionA |-> optionA.name,
                  optionB |-> optionB.name]

----------------------------------------------------------------------------
(* Bounds and input data *)

\* number of integration ids in the integrations table
MaxIntegrations == 2

IntegrationIds == 1..MaxIntegrations

OptionIds == {1, 2}

OptionRow(id, name) == [id |-> id, name |-> name, description |-> "d"]

WeightRow(type, dw, lo, me, hi) ==
    [attribute_type |-> type, default_weight |-> dw,
     scalability_low_modifier |-> lo, scalability_medium_modifier |-> me,
     scalability_high_modifier |-> hi]

\* the seeded weights table
SeedWeights ==
    <<WeightRow("cost_model", 30, 120, 100, 80),
      WeightRow("scalability", 25, 60, 100, 150),
      WeightRow("complexity", 25, 100, 100, 90),
      WeightRow("maintenance", 20, 110, 100, 90)>>

\* the seeded defaults with every modifier left at the column default 1.0
NeutralWeights ==
    <<WeightRow("cost_model", 30, 100, 100, 100),
      WeightRow("scalability", 25, 100, 100, 100),
      WeightRow("complexity", 25, 100, 100, 100),
      WeightRow("maintenance", 20, 100, 100, 100)>>

\* cost_model and scalability as seeded, the other two rows at the column default
PartlyNeutralWeights ==
    <<WeightRow("cost_model", 30, 120, 100, 80),
      WeightRow("scalability", 25, 60, 100, 150),
      WeightRow("complexity", 25, 100, 100, 100),
      WeightRow("maintenance", 20, 100, 100, 100)>>

\* a modifier of 0
ZeroModifierWeights ==
    <<WeightRow("cost_model", 30, 0, 100, 80),
      WeightRow("scalability", 25, 60, 100, 0),
      WeightRow("complexity", 25, 100, 100, 90),
      WeightRow("maintenance", 20, 110, 100, 90)>>

\* a negative modifier (the modifier columns carry no CHECK)
NegativeModifierWeights ==
    <<WeightRow("cost_model", 30, 120, 100, -80),
      WeightRow("scalability", 25, -60, 100, 150),
      WeightRow("complexity", 25, 100, 100, 90),
      WeightRow("maintenance", 20, 110, 100, 90)>>

SingleRowWeights == <<WeightRow("cost_model", 30, 120, 100, 80)>>

ZeroDefaultWeights ==
    <<WeightRow("cost_model", 0, 120, 100, 80),
      WeightRow("scalability", 0, 60, 100, 150),
      WeightRow("complexity", 0, 100, 100, 90),
      WeightRow("maintenance", 0, 110, 100, 90)>>

\* equal effective weights, rows in another order
TiedWeights ==
    <<WeightRow("maintenance", 25, 100, 100, 100),
      WeightRow("complexity", 25, 100, 100, 100),
      WeightRow("scalability", 25, 100, 100, 200),
      WeightRow("cost_model", 25, 200, 100, 200)>>

\* a row whose attribute_type (VARCHAR(50), any string) is none of the four
\* attribute types, carrying the highest weight
UnknownTypeWeights ==
    <<WeightRow("security", 40, 100, 100, 100),
      WeightRow("cost_model", 30, 120, 100, 80),
      WeightRow("scalability", 25, 60, 100, 150)>>

WeightTables ==
    {SeedWeights, NeutralWeights, PartlyNeutralWeights, ZeroModifierWeights,
     NegativeModifierWeights, SingleRowWeights, ZeroDefaultWeights, TiedWeights,
     UnknownTypeWeights, <<>>}

\* the attribute rows of one option from a profile type -> rating or "absent"
AttributeRows(oid, profile) ==
    {[option_id |-> oid, attribute_type |-> t, value |-> "v", rating |-> profile[t]] :
        t \in {u \in AttributeTypeSet : profile[u] # "absent"}}

Profile(cm, sc, cx, mt) ==
    [cost_model |-> cm, scalability |-> sc, complexity |-> cx, maintenance |-> mt]

\* every profile, attribute rows possibly missing
AllProfiles == [AttributeTypeSet -> Ratings \cup {"absent"}]

\* the profiles used for pairs of options
PairProfiles == {Profile(cm, sc, cx, "medium") : cm \in Ratings, sc \in Ratings, cx \in Ratings}

ExampleA == Profile("low", "high", "medium", "medium")

ExampleB == Profile("high", "low", "medium", "medium")

Constraints(priority, required) ==
    [budgetMin |-> 0, budgetMax |-> 1000, scalabilityPriority |-> priority,
     requiredIntegrations |-> required]

\* the AI step before any provider was called
NoAI == [groq |-> "not_called", gemini |-> "not_called", groqCalls |-> 0,
         geminiCalls |-> 0, aiResponse |-> None, aiResult |-> None]

----------------------------------------------------------------------------
(* The engine called directly: compare, then generate, then generatePivot *)

\* no browser is part of the run
NoBrowser ==
    /\ uiState = None
    /\ uiConstraints = None
    /\ rendered = None

EngineIdle ==
    /\ pc = "start"
    /\ db = None
    /\ optionIds = <<>>
    /\ comparison = None
    /\ explanation = None
    /\ pivot = None
    /\ useAI = FALSE
    /\ ai = NoAI
    /\ response = None
    /\ resolved = None
    /\ NoBrowser
    /\ adminReqs = <<>>

\* one option, every attribute profile, every weights table
InitScore ==
    /\ EngineIdle
    /\ options = <<OptionRow(1, "A")>>
    /\ \E p \in AllProfiles : attributes = AttributeRows(1, p)
    /\ weights \in WeightTables
    /\ optionIntegrations = {}
    /\ \E pr \in Priorities : constraints = Constraints(pr, {})

\* two options in either order (a name may be the empty string: options.name
\* is NOT NULL only), every integration mapping and requirement
InitFilter ==
    /\ EngineIdle
    /\ options \in {<<OptionRow(1, "A"), OptionRow(2, "B")>>,
                    <<OptionRow(2, "B"), OptionRow(1, "A")>>,
                    <<OptionRow(1, ""), OptionRow(2, "B")>>}
    /\ attributes = AttributeRows(1, ExampleA) \cup AttributeRows(2, ExampleB)
    /\ weights = SeedWeights
    /\ optionIntegrations \in
           SUBSET [option_id : OptionIds, integration_id : IntegrationIds]
    /\ \E pr \in Priorities, req \in SUBSET IntegrationIds :
           constraints = Constraints(pr, req)

\* two options (names possibly equal: options.name is not UNIQUE), pairs of profiles
InitPivot ==
    /\ EngineIdle
    /\ \E n \in {"A", "B"} : options = <<OptionRow(1, "A"), OptionRow(2, n)>>
    /\ \E pa \in PairProfiles, pb \in PairProfiles :
           attributes = AttributeRows(1, pa) \cup AttributeRows(2, pb)
    /\ weights \in WeightTables
    /\ optionIntegrations = {}
    /\ \E pr \in Priorities : constraints = Constraints(pr, {})

CallCompare ==
    /\ pc = "start"
    /\ comparison' = compare(options, attributes, weights, optionIntegrations, constraints)
    /\ pc' = "compared"
    /\ UNCHANGED <<uiState, uiConstraints, rendered, adminReqs, db, resolved, optionIds, options, attributes, weights, optionIntegrations,
                   constraints, explanation, pivot, useAI, ai, response>>

CallGenerate ==
    /\ pc = "compared"
    /\ explanation' = generate(comparison, constraints)
    /\ pc' = "explained"
    /\ UNCHANGED <<uiState, uiConstraints, rendered, adminReqs, db, resolved, optionIds, options, attributes, weights, optionIntegrations,
                   constraints, comparison, pivot, useAI, ai, response>>

CallGeneratePivot ==
    /\ pc = "explained"
    /\ pivot' = generatePivot(comparison, constraints, weights)
    /\ pc' = "pivoted"
    /\ UNCHANGED <<uiState, uiConstraints, rendered, adminReqs, db, resolved, optionIds, options, attributes, weights, optionIntegrations,
                   constraints, comparison, explanation, useAI, ai, response>>

\* the two exported functions of the weight resolver, called on the same inputs
CallWeightResolver ==
    /\ pc = "pivoted"
    /\ resolved' = [effectiveWeights |-> getEffectiveWeights(weights, constraints),
                    primaryAttribute |-> getPrimaryAttribute(weights, constraints)]
    /\ pc' = "resolved"
    /\ UNCHANGED <<uiState, uiConstraints, rendered, adminReqs, db, optionIds, options, attributes, weights, optionIntegrations,
                   constraints, comparison, explanation, pivot, useAI, ai, response>>

NextEngine == CallCompare \/ CallGenerate \/ CallGeneratePivot \/ CallWeightResolver

SpecScore == InitScore /\ [][NextEngine]_vars

SpecFilter == InitFilter /\ [][NextEngine]_vars

SpecPivot == InitPivot /\ [][NextEngine]_vars

----------------------------------------------------------------------------
(* POST /api/compare: validateCompareRequest *)

\* Ids are UUID strings in the program; here a UUID is a positive integer and
\* NotAUuid stands for a string that is not UUID-shaped.
NotAUuid == 0

\* z.string().uuid()
isUuid(id) == id # NotAUuid

\* one entry of formatZodErrors: the issue path joined with "." and its message
\* (the index of an array element is left out of the path of requiredIntegrations)
Issue(path, message) == [path |-> path, message |-> message]

\* ConstraintsSchema applied to body.constraints; a later issue on the same
\* path replaces the earlier one, as in formatZodErrors
ConstraintsIssues(c) ==
    LET minMissing == "budgetMin" \notin DOMAIN c
        maxMissing == "budgetMax" \notin DOMAIN c
        prMissing == "scalabilityPriority" \notin DOMAIN c
        prInvalid == ~prMissing /\ c.scalabilityPriority \notin {"low", "medium", "high"}
        \* a missing key or a value outside the enum makes the object invalid
        \* and the refinement is not run
        aborted == minMissing \/ maxMissing \/ prMissing \/ prInvalid
        refined == ~aborted /\ ~(c.budgetMax >= c.budgetMin)
    IN  (IF minMissing THEN {Issue("constraints.budgetMin", "budgetMin is required")}
         ELSE IF c.budgetMin < 0
         THEN {Issue("constraints.budgetMin", "budgetMin must be non-negative")}
         ELSE {})
        \cup
        (IF maxMissing THEN {Issue("constraints.budgetMax", "budgetMax is required")}
         ELSE IF refined
         THEN {Issue("constraints.budgetMax",
                     "budgetMax must be greater than or equal to budgetMin")}
         ELSE IF c.budgetMax < 0
         THEN {Issue("constraints.budgetMax", "budgetMax must be non-negative")}
         ELSE {})
        \cup
        (IF prMissing
         THEN {Issue("constraints.scalabilityPriority", "scalabilityPriority is required")}
         ELSE IF prInvalid
         THEN {Issue("constraints.scalabilityPriority", "Invalid enum value")}
         ELSE {})
        \cup
        (IF "requiredIntegrations" \in DOMAIN c
            /\ \E id \in c.requiredIntegrations : ~isUuid(id)
         THEN {Issue("constraints.requiredIntegrations",
                     "Each integration ID must be a valid UUID")}
         ELSE {})

\* faulty variant: the refinement ids[0] !== ids[1] is missing
OptionIdsIssues_NoDifferenceCheck(ids) ==
    IF Len(ids) < 2
    THEN {Issue("optionIds", "Array must contain at least 2 element(s)")}
    ELSE (IF ~isUuid(ids[1])
          THEN {Issue("optionIds.0", "First option ID must be a valid UUID")} ELSE {})
         \cup
         (IF ~isUuid(ids[2])
          THEN {Issue("optionIds.1", "Second option ID must be a valid UUID")} ELSE {})
         \cup
         (IF Len(ids) > 2
          THEN {Issue("optionIds", "Array must contain at most 2 element(s)")}
          ELSE {})

\* the tuple of two UUIDs with its refinement, applied to body.optionIds
OptionIdsIssues(ids) ==
    IF Len(ids) < 2
    THEN {Issue("optionIds", "Array must contain at least 2 element(s)")}
    ELSE (IF ~isUuid(ids[1])
          THEN {Issue("optionIds.0", "First option ID must be a valid UUID")} ELSE {})
         \cup
         (IF ~isUuid(ids[2])
          THEN {Issue("optionIds.1", "Second option ID must be a valid UUID")} ELSE {})
         \cup
         (IF ~(ids[1] # ids[2])
          THEN {Issue("optionIds", "Option IDs must be different")}
          ELSE IF Len(ids) > 2
          THEN {Issue("optionIds", "Array must contain at most 2 element(s)")}
          ELSE {})

\* CompareRequestSchema.safeParse(req.body): success with the parsed data
\* (requiredIntegrations defaults to []), or the issues
safeParse(body) ==
    LET issues == ConstraintsIssues(body.constraints) \cup OptionIdsIssues(body.optionIds)
    IN  IF issues # {}
        THEN [success |-> FALSE, details |-> issues]
        ELSE [success |-> TRUE,
              data |-> [constraints |->
                            [budgetMin |-> body.constraints.budgetMin,
                             budgetMax |-> body.constraints.budgetMax,
                             scalabilityPriority |-> body.constraints.scalabilityPriority,
                             requiredIntegrations |->
                                 IF "requiredIntegrations" \in DOMAIN body.constraints
                                 THEN body.constraints.requiredIntegrations
                                 ELSE {}],
                        optionIds |-> body.optionIds]]

----------------------------------------------------------------------------
(* POST /api/compare: the handler *)

AppError(message, statusCode, code) ==
    [message |-> message, statusCode |-> statusCode, code |-> code,
     isOperational |-> TRUE]

\* what pool.query can do: answer, or fail with an error code (or without one)
DbFailures == {"ECONNREFUSED", "ENOTFOUND", "ETIMEDOUT", "no_code"}

\* the AppError safeQuery throws for a failed query
safeQueryError(failure) ==
    IF failure = "ECONNREFUSED" \/ failure = "ENOTFOUND"
    THEN AppError(<<"Database connection lost">>, 503, "DATABASE_CONNECTION_ERROR")
    ELSE AppError(<<"Database query failed: ", failure>>, 500, "DATABASE_ERROR")

errorHandler(err) ==
    IF err.isOperational
    THEN [status |-> err.statusCode, body |-> [error |-> err.message, code |-> err.code]]
    ELSE [status |-> 500,
          body |-> [error |-> <<"An unexpected error occurred">>, code |-> "INTERNAL_ERROR"]]

\* the rows of a SELECT without ORDER BY: every order of the set
Orderings(S) == {sq \in [1..Cardinality(S) -> S] : Range(sq) = S}

getOptionsByIds(ids) ==
    Orderings({o \in db.options : o.id \in Range(ids)})

getAttributesByOptionIds(ids) == {a \in db.attributes : a.option_id \in Range(ids)}

getWeights == db.weights

getOptionIntegrationsByOptionIds(ids) ==
    {oi \in db.option_integrations : oi.option_id \in Range(ids)}

\* faulty variant: the handler only rejects an empty result
insufficientOptions_LessThanOne(cmp) == Len(cmp.options) < 1

\* the check of the handler on the result of compare
insufficientOptions(cmp) == Len(cmp.options) < 2

\* what a provider call can end with, besides a reply text
ProviderFailures == {"network_error", "http_error", "empty_content"}

AIAnalysisEntry(name) ==
    [optionName |-> name, pros |-> <<"ai pro">>, cons |-> <<"ai con">>,
     bestFor |-> <<"ai best for">>]

CompleteAIObject ==
    [summary |-> <<"ai summary">>, recommendation |-> <<"ai recommendation">>,
     decisionGuidance |-> <<"ai guidance">>,
     detailedAnalysis |-> <<AIAnalysisEntry("A"), AIAnalysisEntry("B")>>,
     pivotStatement |-> <<"ai pivot">>, confidenceScore |-> 85]

Without(r, field) == [f \in DOMAIN r \ {field} |-> r[f]]

\* reply texts: json says whether the text holds no {...}, one JSON.parse
\* rejects, or an object
AIReplies ==
    {[json |-> "none", obj |-> None],
     [json |-> "invalid", obj |-> None],
     [json |-> "object", obj |-> Without(CompleteAIObject, "summary")],
     [json |-> "object", obj |-> Without(CompleteAIObject, "recommendation")],
     [json |-> "object", obj |-> Without(CompleteAIObject, "detailedAnalysis")],
     [json |-> "object", obj |-> Without(CompleteAIObject, "pivotStatement")],
     [json |-> "object",
      obj |-> [CompleteAIObject EXCEPT !.detailedAnalysis = <<AIAnalysisEntry("A")>>]],
     [json |-> "object", obj |-> CompleteAIObject]}

\* faulty variant: recommendation is not required
parseAIResponse_NoRecommendationCheck(reply) ==
    IF reply.json = "none" THEN None
    ELSE IF reply.json = "invalid" THEN None
    ELSE IF \/ "summary" \notin DOMAIN reply.obj
            \/ "detailedAnalysis" \notin DOMAIN reply.obj
    THEN None
    ELSE reply.obj

parseAIResponse(reply) ==
    IF reply.json = "none" THEN None
    ELSE IF reply.json = "invalid" THEN None
    ELSE IF \/ "summary" \notin DOMAIN reply.obj
            \/ "recommendation" \notin DOMAIN reply.obj
            \/ "detailedAnalysis" \notin DOMAIN reply.obj
    THEN None
    ELSE reply.obj

\* the response body when the AI step gave a result
aiEnhancedBody(cmp, expl, piv, aiResult) ==
    [comparison |-> cmp,
     explanation |->
        [expl EXCEPT
            !.summary = aiResult.summary,
            !.optionAnalysis =
                [index \in 1..Len(expl.optionAnalysis) |->
                    IF index <= Len(aiResult.detailedAnalysis)
                    THEN [expl.optionAnalysis[index] EXCEPT
                             !.strengths = aiResult.detailedAnalysis[index].pros,
                             !.weaknesses = aiResult.detailedAnalysis[index].cons,
                             !.fitReason = aiResult.detailedAnalysis[index].bestFor]
                    ELSE expl.optionAnalysis[index]]],
     \* statement: undefined is dropped by res.json
     pivot |-> IF "pivotStatement" \in DOMAIN aiResult
               THEN [piv EXCEPT !.statement = aiResult.pivotStatement]
               ELSE Without(piv, "statement"),
     aiEnhanced |-> TRUE,
     aiAnalysis |-> aiResult]

standardBody(cmp, expl, piv) ==
    [comparison |-> cmp, explanation |-> expl, pivot |-> piv, aiEnhanced |-> FALSE]

\* request bodies the validator accepts
ValidBodies ==
    {[constraints |-> Constraints(pr, req), optionIds |-> ids] :
        pr \in Priorities, req \in SUBSET IntegrationIds, ids \in {<<1, 2>>, <<1, 3>>}}
    \cup
    {[constraints |-> Without(Constraints("medium", {}), "requiredIntegrations"),
      optionIds |-> <<2, 1>>],
     [constraints |-> [Constraints("low", {}) EXCEPT !.budgetMax = 0],
      optionIds |-> <<1, 2>>]}

\* body.constraints with one defect each
InvalidConstraints ==
    LET base == Constraints("medium", {})
    IN  {Without(base, "budgetMin"),
         Without(base, "budgetMax"),
         [base EXCEPT !.budgetMin = -1],
         [base EXCEPT !.budgetMax = -1],
         [base EXCEPT !.budgetMin = 2000],
         [base EXCEPT !.scalabilityPriority = "urgent"],
         Without(base, "scalabilityPriority"),
         [base EXCEPT !.requiredIntegrations = {NotAUuid}],
         [base EXCEPT !.requiredIntegrations = {1, NotAUuid}]}

\* body.optionIds with one defect each
InvalidOptionIds ==
    {<<>>, <<1>>, <<1, 2, 3>>, <<1, 1>>, <<2, 2, 1>>, <<1, NotAUuid>>, <<NotAUuid, 2>>}

\* request bodies the validator rejects
InvalidBodies ==
    {[constraints |-> c, optionIds |-> <<1, 2>>] : c \in InvalidConstraints}
    \cup
    {[constraints |-> Constraints("medium", {}), optionIds |-> ids] :
        ids \in InvalidOptionIds}
    \cup
    {[constraints |-> Without(Constraints("high", {1}), "budgetMin"), optionIds |-> <<1, 1>>]}

RequestBodies == ValidBodies \cup InvalidBodies

Init ==
    /\ pc = "idle"
    /\ \E ois \in SUBSET [option_id : OptionIds, integration_id : IntegrationIds],
          gk \in BOOLEAN, mk \in BOOLEAN :
           db = [options |-> {OptionRow(1, "A"), OptionRow(2, "B")},
                 attributes |-> AttributeRows(1, ExampleA) \cup AttributeRows(2, ExampleB),
                 weights |-> SeedWeights,
                 option_integrations |-> ois,
                 GROQ_API_KEY |-> gk,
                 GEMINI_API_KEY |-> mk]
    /\ optionIds = <<>>
    /\ options = <<>>
    /\ attributes = {}
    /\ weights = <<>>
    /\ optionIntegrations = {}
    /\ constraints = None
    /\ comparison = None
    /\ explanation = None
    /\ pivot = None
    /\ useAI = FALSE
    /\ ai = NoAI
    /\ response = None
    /\ resolved = None
    /\ NoBrowser
    /\ adminReqs = <<>>

\* a request arrives with req.body = {constraints, optionIds}; the handler
\* keeps nothing from one request to the next, so one request per behaviour
\* is followed
ReceiveRequest ==
    /\ pc = "idle"
    /\ \E body \in RequestBodies :
           /\ constraints' = body.constraints
           /\ optionIds' = body.optionIds
    /\ useAI' \in BOOLEAN
    /\ options' = <<>>
    /\ attributes' = {}
    /\ weights' = <<>>
    /\ optionIntegrations' = {}
    /\ comparison' = None
    /\ explanation' = None
    /\ pivot' = None
    /\ ai' = NoAI
    /\ response' = None
    /\ pc' = "validate"
    /\ UNCHANGED <<uiState, uiConstraints, rendered, adminReqs, db, resolved>>

\* validateCompareRequest: res.status(400).json(errorResponse) without calling
\* next(), or req.body = result.data and next() (the timestamp of the error
\* response is left out)
ValidateRequest ==
    /\ pc = "validate"
    /\ LET result == safeParse([constraints |-> constraints, optionIds |-> optionIds])
       IN  IF ~result.success
           THEN /\ response' = [status |-> 400,
                                body |-> [error |-> <<"Validation failed">>,
                                          code |-> "VALIDATION_ERROR",
                                          details |-> result.details]]
                /\ pc' = "done"
                /\ UNCHANGED <<constraints, optionIds>>
           ELSE /\ constraints' = result.data.constraints
                /\ optionIds' = result.data.optionIds
                /\ pc' = "fetch_options"
                /\ UNCHANGED response
    /\ UNCHANGED <<uiState, uiConstraints, rendered, adminReqs, db, resolved, options, attributes, weights, optionIntegrations,
                   comparison, explanation, pivot, useAI, ai>>

\* await getOptionsByIds(optionIds), then the check that both options exist
FetchOptions ==
    /\ pc = "fetch_options"
    /\ \/ \E rows \in getOptionsByIds(optionIds) :
            /\ options' = rows
            /\ IF Len(rows) # 2
               THEN /\ response' = errorHandler(
                           AppError(<<"Option(s) not found: ",
                                      SelectSeq(optionIds, LAMBDA id :
                                          \A k \in 1..Len(rows) : rows[k].id # id)>>,
                                    404, "NOT_FOUND"))
                    /\ pc' = "done"
               ELSE /\ pc' = "fetch_related"
                    /\ UNCHANGED response
       \/ \E failure \in DbFailures :
            /\ response' = errorHandler(safeQueryError(failure))
            /\ pc' = "done"
            /\ UNCHANGED options
    /\ UNCHANGED <<uiState, uiConstraints, rendered, adminReqs, db, resolved, optionIds, attributes, weights, optionIntegrations, constraints,
                   comparison, explanation, pivot, useAI, ai>>

\* await Promise.all([getAttributesByOptionIds, getWeights, getOptionIntegrationsByOptionIds])
FetchRelated ==
    /\ pc = "fetch_related"
    /\ \/ /\ attributes' = getAttributesByOptionIds(optionIds)
          /\ weights' = getWeights
          /\ optionIntegrations' = getOptionIntegrationsByOptionIds(optionIds)
          /\ pc' = "run"
          /\ UNCHANGED response
       \/ \E failure \in DbFailures :
            /\ response' = errorHandler(safeQueryError(failure))
            /\ pc' = "done"
            /\ UNCHANGED <<attributes, weights, optionIntegrations>>
    /\ UNCHANGED <<uiState, uiConstraints, rendered, adminReqs, db, resolved, optionIds, options, constraints, comparison, explanation, pivot,
                   useAI, ai>>

\* compare and the check on the surviving options
RunComparison ==
    /\ pc = "run"
    /\ comparison' = compare(options, attributes, weights, optionIntegrations, constraints)
    /\ IF insufficientOptions(comparison')
       THEN /\ response' = errorHandler(
                   AppError(<<"One or both options do not support the required integrations">>,
                            400, "VALIDATION_ERROR"))
            /\ pc' = "done"
       ELSE /\ pc' = "generate"
            /\ UNCHANGED response
    /\ UNCHANGED <<uiState, uiConstraints, rendered, adminReqs, db, resolved, optionIds, options, attributes, weights, optionIntegrations,
                   constraints, explanation, pivot, useAI, ai>>

\* const explanation = generate(comparisonResult, constraints)
GenerateExplanation ==
    /\ pc = "generate"
    /\ explanation' = generate(comparison, constraints)
    /\ pc' = "pivot"
    /\ UNCHANGED <<uiState, uiConstraints, rendered, adminReqs, db, resolved, optionIds, options, attributes, weights, optionIntegrations,
                   constraints, comparison, pivot, useAI, ai, response>>

\* const pivot = generatePivot(comparisonResult, constraints, weights)
GeneratePivotStep ==
    /\ pc = "pivot"
    /\ pivot' = generatePivot(comparison, constraints, weights)
    /\ pc' = IF useAI THEN "call_groq" ELSE "respond"
    /\ UNCHANGED <<uiState, uiConstraints, rendered, adminReqs, db, resolved, optionIds, options, attributes, weights, optionIntegrations,
                   constraints, comparison, explanation, useAI, ai, response>>

\* callGroqAPI up to its fetch
CallGroq ==
    /\ pc = "call_groq"
    /\ IF ~db.GROQ_API_KEY
       THEN /\ ai' = [ai EXCEPT !.groq = "no_key"]
            /\ pc' = "call_gemini"
       ELSE /\ ai' = [ai EXCEPT !.groq = "pending", !.groqCalls = @ + 1]
            /\ pc' = "groq_pending"
    /\ UNCHANGED <<uiState, uiConstraints, rendered, adminReqs, db, resolved, optionIds, options, attributes, weights, optionIntegrations,
                   constraints, comparison, explanation, pivot, useAI, response>>

\* the Groq fetch settles: rejection, HTTP error, no content, or a reply text
GroqAnswers ==
    /\ pc = "groq_pending"
    /\ \/ \E f \in ProviderFailures :
            /\ ai' = [ai EXCEPT !.groq = f]
            /\ pc' = "call_gemini"
       \/ \E reply \in AIReplies :
            /\ ai' = [ai EXCEPT !.groq = "replied", !.aiResponse = reply]
            /\ pc' = "parse"
    /\ UNCHANGED <<uiState, uiConstraints, rendered, adminReqs, db, resolved, optionIds, options, attributes, weights, optionIntegrations,
                   constraints, comparison, explanation, pivot, useAI, response>>

\* callGeminiAPI up to its fetch, reached only when Groq gave no text
CallGemini ==
    /\ pc = "call_gemini"
    /\ IF ~db.GEMINI_API_KEY
       THEN /\ ai' = [ai EXCEPT !.gemini = "no_key"]
            /\ pc' = "respond"
       ELSE /\ ai' = [ai EXCEPT !.gemini = "pending", !.geminiCalls = @ + 1]
            /\ pc' = "gemini_pending"
    /\ UNCHANGED <<uiState, uiConstraints, rendered, adminReqs, db, resolved, optionIds, options, attributes, weights, optionIntegrations,
                   constraints, comparison, explanation, pivot, useAI, response>>

GeminiAnswers ==
    /\ pc = "gemini_pending"
    /\ \/ \E f \in ProviderFailures :
            /\ ai' = [ai EXCEPT !.gemini = f]
            /\ pc' = "respond"
       \/ \E reply \in AIReplies :
            /\ ai' = [ai EXCEPT !.gemini = "replied", !.aiResponse = reply]
            /\ pc' = "parse"
    /\ UNCHANGED <<uiState, uiConstraints, rendered, adminReqs, db, resolved, optionIds, options, attributes, weights, optionIntegrations,
                   constraints, comparison, explanation, pivot, useAI, response>>

\* generateFullAIComparison returns parseAIResponse(aiResponse)
ParseAI ==
    /\ pc = "parse"
    /\ ai' = [ai EXCEPT !.aiResult = parseAIResponse(ai.aiResponse)]
    /\ pc' = "respond"
    /\ UNCHANGED <<uiState, uiConstraints, rendered, adminReqs, db, resolved, optionIds, options, attributes, weights, optionIntegrations,
                   constraints, comparison, explanation, pivot, useAI, response>>

\* res.json(response): the AI-enhanced body if the AI step gave a result,
\* the standard one otherwise
SendResponse ==
    /\ pc = "respond"
    /\ response' =
           [status |-> 200,
            body |-> IF useAI /\ ai.aiResult # None
                     THEN aiEnhancedBody(comparison, explanation, pivot, ai.aiResult)
                     ELSE standardBody(comparison, explanation, pivot)]
    /\ pc' = "done"
    /\ UNCHANGED <<uiState, uiConstraints, rendered, adminReqs, db, resolved, optionIds, options, attributes, weights, optionIntegrations,
                   constraints, comparison, explanation, pivot, useAI, ai>>

\* the steps the server takes by itself once what it awaits has settled
HandlerStep ==
    ValidateRequest \/ FetchOptions \/ FetchRelated \/ RunComparison \/ GenerateExplanation
        \/ GeneratePivotStep \/ CallGroq \/ CallGemini \/ ParseAI \/ SendResponse

Next ==
    \/ ReceiveRequest
    \/ ValidateRequest
    \/ FetchOptions
    \/ FetchRelated
    \/ RunComparison
    \/ GenerateExplanation
    \/ GeneratePivotStep
    \/ CallGroq
    \/ GroqAnswers
    \/ CallGemini
    \/ GeminiAnswers
    \/ ParseAI
    \/ SendResponse

Spec == Init /\ [][Next]_vars

\* one deployment: no option mapped to an integration yet, both API keys set
InitLive ==
    /\ Init
    /\ db.option_integrations = {}
    /\ db.GROQ_API_KEY
    /\ db.GEMINI_API_KEY

\* the server's own steps and the database's answers are taken when enabled;
\* an AI provider is not obliged to answer
FairSpec == InitLive /\ [][Next]_vars /\ WF_vars(HandlerStep)

----------------------------------------------------------------------------
(* Browser: the useConstraints hook and the handlers of ConstraintPanel *)

\* the server while no request of the run is followed
ServerIdle ==
    /\ pc = "idle"
    /\ optionIds = <<>>
    /\ options = <<>>
    /\ attributes = {}
    /\ weights = <<>>
    /\ optionIntegrations = {}
    /\ constraints = None
    /\ comparison = None
    /\ explanation = None
    /\ pivot = None
    /\ useAI = FALSE
    /\ ai = NoAI
    /\ response = None
    /\ resolved = None

\* slider positions followed: min 0, max 100000, every 25th step of 1000
Budgets == {0, 25000, 50000, 75000, 100000}

DEFAULT_CONSTRAINTS ==
    [budgetMin |-> 0, budgetMax |-> 50000, scalabilityPriority |-> "medium",
     requiredIntegrations |-> {}]

Max(a, b) == IF a >= b THEN a ELSE b

Min(a, b) == IF a <= b THEN a ELSE b

\* faulty variant: the maximum is not raised with the minimum
updateBudgetMin_Uncoupled(prev, value) == [prev EXCEPT !.budgetMin = value]

\* the state updaters of useConstraints
updateBudgetMin(prev, value) ==
    [prev EXCEPT !.budgetMin = value, !.budgetMax = Max(prev.budgetMax, value)]

updateBudgetMax(prev, value) ==
    [prev EXCEPT !.budgetMax = value, !.budgetMin = Min(prev.budgetMin, value)]

updateScalabilityPriority(prev, priority) ==
    [prev EXCEPT !.scalabilityPriority = priority]

toggleIntegration(prev, integrationId) ==
    [prev EXCEPT !.requiredIntegrations =
        IF integrationId \in @ THEN @ \ {integrationId} ELSE @ \cup {integrationId}]

\* the handlers of ConstraintPanel: the value passed to onConstraintsChange,
\* built from the constraints prop of the render the handler belongs to
handleBudgetMinChange(c, newMin) ==
    [c EXCEPT !.budgetMin = newMin, !.budgetMax = Max(c.budgetMax, newMin)]

handleBudgetMaxChange(c, newMax) ==
    [c EXCEPT !.budgetMax = newMax, !.budgetMin = Min(c.budgetMin, newMax)]

handleScalabilityChange(c, priority) == [c EXCEPT !.scalabilityPriority = priority]

handleIntegrationToggle(c, integrationId) ==
    [c EXCEPT !.requiredIntegrations =
        IF integrationId \in @ THEN @ \ {integrationId} ELSE @ \cup {integrationId}]

\* useConstraints(initialConstraints): the defaults overridden by any initial
\* values with budgetMin <= budgetMax; the panel is rendered with that state
InitConstraints ==
    /\ ServerIdle
    /\ db = None
    /\ uiState = None
    /\ adminReqs = <<>>
    /\ \E lo \in Budgets, hi \in Budgets, pr \in Priorities, req \in SUBSET IntegrationIds :
           /\ lo <= hi
           /\ uiConstraints = [DEFAULT_CONSTRAINTS EXCEPT
                                  !.budgetMin = lo, !.budgetMax = hi,
                                  !.scalabilityPriority = pr,
                                  !.requiredIntegrations = req]
    /\ rendered = uiConstraints

UnchangedByConstraints ==
    UNCHANGED <<db, pc, optionIds, options, attributes, weights, optionIntegrations,
                constraints, comparison, explanation, pivot, useAI, ai, response,
                resolved, uiState, adminReqs>>

\* setConstraints((prev) => ...) of the four updaters
UpdateBudgetMin ==
    /\ \E value \in Budgets : uiConstraints' = updateBudgetMin(uiConstraints, value)
    /\ UNCHANGED rendered
    /\ UnchangedByConstraints

UpdateBudgetMax ==
    /\ \E value \in Budgets : uiConstraints' = updateBudgetMax(uiConstraints, value)
    /\ UNCHANGED rendered
    /\ UnchangedByConstraints

UpdateScalabilityPriority ==
    /\ \E priority \in Priorities :
           uiConstraints' = updateScalabilityPriority(uiConstraints, priority)
    /\ UNCHANGED rendered
    /\ UnchangedByConstraints

ToggleIntegration ==
    /\ \E id \in IntegrationIds : uiConstraints' = toggleIntegration(uiConstraints, id)
    /\ UNCHANGED rendered
    /\ UnchangedByConstraints

ResetConstraints ==
    /\ uiConstraints' = DEFAULT_CONSTRAINTS
    /\ UNCHANGED rendered
    /\ UnchangedByConstraints

\* a slider, button or checkbox event of ConstraintPanel:
\* onConstraintsChange = updateConstraints replaces the whole state
HandleBudgetMinChange ==
    /\ \E newMin \in Budgets : uiConstraints' = handleBudgetMinChange(rendered, newMin)
    /\ UNCHANGED rendered
    /\ UnchangedByConstraints

HandleBudgetMaxChange ==
    /\ \E newMax \in Budgets : uiConstraints' = handleBudgetMaxChange(rendered, newMax)
    /\ UNCHANGED rendered
    /\ UnchangedByConstraints

HandleScalabilityChange ==
    /\ \E priority \in Priorities :
           uiConstraints' = handleScalabilityChange(rendered, priority)
    /\ UNCHANGED rendered
    /\ UnchangedByConstraints

HandleIntegrationToggle ==
    /\ \E id \in IntegrationIds : uiConstraints' = handleIntegrationToggle(rendered, id)
    /\ UNCHANGED rendered
    /\ UnchangedByConstraints

\* React renders App again: the panel gets the current state as its prop
Render ==
    /\ rendered # uiConstraints
    /\ rendered' = uiConstraints
    /\ UNCHANGED uiConstraints
    /\ UnchangedByConstraints

NextConstraints ==
    \/ UpdateBudgetMin
    \/ UpdateBudgetMax
    \/ UpdateScalabilityPriority
    \/ ToggleIntegration
    \/ ResetConstraints
    \/ HandleBudgetMinChange
    \/ HandleBudgetMaxChange
    \/ HandleScalabilityChange
    \/ HandleIntegrationToggle
    \/ Render

SpecConstraints == InitConstraints /\ [][NextConstraints]_vars

----------------------------------------------------------------------------
(* Admin API: POST /api/admin/options and POST /api/admin/integrations *)

\* admin requests followed in one behaviour
MaxAdminRequests == 2

\* nothing written yet by a transaction
EmptyTx == [options |-> {}, attributes |-> {}, option_integrations |-> {}]

\* a request as it arrives: the body passes its zod schema or not
AdminRequest(kind, valid) ==
    [kind |-> kind, valid |-> valid, pc |-> "validate", id |-> 0, tx |-> EmptyTx,
     status |-> 0]

\* gen_random_uuid(): an id no other row has; request r gets its own
newOptionId(r) == 2 + r

newIntegrationId(r) == MaxIntegrations + r

\* INSERT INTO option_integrations SELECT $1, id, 'native' FROM integrations:
\* under READ COMMITTED the statement sees the integrations committed when it runs
optionMappingRows(optionId) ==
    {[option_id |-> optionId, integration_id |-> i] : i \in db.integrations}

\* INSERT INTO option_integrations SELECT id, $1, 'native' FROM options:
\* the statement sees the options committed when it runs
integrationMappingRows(integrationId) ==
    {[option_id |-> o.id, integration_id |-> integrationId] : o \in db.options}

\* the tables after the seed: every option mapped to every integration
InitAdmin ==
    /\ ServerIdle
    /\ NoBrowser
    /\ adminReqs = <<>>
    /\ \E ints \in SUBSET IntegrationIds :
           db = [options |-> {OptionRow(1, "A"), OptionRow(2, "B")},
                 attributes |-> AttributeRows(1, ExampleA) \cup AttributeRows(2, ExampleB),
                 integrations |-> ints,
                 option_integrations |->
                     {[option_id |-> o, integration_id |-> i] : o \in OptionIds, i \in ints}]

UnchangedByAdmin ==
    UNCHANGED <<pc, optionIds, options, attributes, weights, optionIntegrations,
                constraints, comparison, explanation, pivot, useAI, ai, response,
                resolved, uiState, uiConstraints, rendered>>

\* a request reaches one of the two routes
AdminRequestArrives ==
    /\ Len(adminReqs) < MaxAdminRequests
    /\ \E kind \in {"option", "integration"}, valid \in BOOLEAN :
           adminReqs' = Append(adminReqs, AdminRequest(kind, valid))
    /\ UNCHANGED db
    /\ UnchangedByAdmin

\* safeParse of the body: AppError 400, or on to the first query
\* (for an option: pool.connect() and BEGIN)
AdminValidate ==
    /\ \E r \in 1..Len(adminReqs) :
           /\ adminReqs[r].pc = "validate"
           /\ adminReqs' =
                  [adminReqs EXCEPT ![r] =
                      IF ~adminReqs[r].valid
                      THEN [@ EXCEPT !.pc = "done", !.status = 400]
                      ELSE IF adminReqs[r].kind = "option"
                      THEN [@ EXCEPT !.pc = "insert_option"]
                      ELSE [@ EXCEPT !.pc = "insert_integration"]]
    /\ UNCHANGED db
    /\ UnchangedByAdmin

\* INSERT INTO options ... RETURNING id, inside the transaction
InsertOption ==
    /\ \E r \in 1..Len(adminReqs) :
           /\ adminReqs[r].pc = "insert_option"
           /\ adminReqs' =
                  [adminReqs EXCEPT ![r] =
                      [@ EXCEPT !.id = newOptionId(r),
                                !.tx.options = {OptionRow(newOptionId(r), "N")},
                                !.pc = "insert_attributes"]]
    /\ UNCHANGED db
    /\ UnchangedByAdmin

\* the loop INSERT INTO attributes over the four entries of body.attributes
InsertAttributes ==
    /\ \E r \in 1..Len(adminReqs) :
           /\ adminReqs[r].pc = "insert_attributes"
           /\ adminReqs' =
                  [adminReqs EXCEPT ![r] =
                      [@ EXCEPT !.tx.attributes = AttributeRows(adminReqs[r].id, ExampleA),
                                !.pc = "insert_mappings"]]
    /\ UNCHANGED db
    /\ UnchangedByAdmin

\* "Auto-add ALL existing integrations to new option", inside the transaction
InsertOptionMappings ==
    /\ \E r \in 1..Len(adminReqs) :
           /\ adminReqs[r].kind = "option"
           /\ adminReqs[r].pc = "insert_mappings"
           /\ adminReqs' =
                  [adminReqs EXCEPT ![r] =
                      [@ EXCEPT !.tx.option_integrations =
                                    optionMappingRows(adminReqs[r].id),
                                !.pc = "commit"]]
    /\ UNCHANGED db
    /\ UnchangedByAdmin

\* COMMIT and res.status(201)
CommitOption ==
    /\ \E r \in 1..Len(adminReqs) :
           /\ adminReqs[r].pc = "commit"
           /\ db' = [db EXCEPT
                        !.options = @ \cup adminReqs[r].tx.options,
                        !.attributes = @ \cup adminReqs[r].tx.attributes,
                        !.option_integrations = @ \cup adminReqs[r].tx.option_integrations]
           /\ adminReqs' = [adminReqs EXCEPT ![r] =
                               [@ EXCEPT !.tx = EmptyTx, !.pc = "done", !.status = 201]]
    /\ UnchangedByAdmin

\* a query of the transaction fails: ROLLBACK, the error goes to the error handler
RollbackOption ==
    /\ \E r \in 1..Len(adminReqs) :
           /\ adminReqs[r].pc \in {"insert_option", "insert_attributes"}
           /\ adminReqs' = [adminReqs EXCEPT ![r] =
                               [@ EXCEPT !.tx = EmptyTx, !.pc = "done", !.status = 500]]
    /\ UNCHANGED db
    /\ UnchangedByAdmin

\* pool.query INSERT INTO integrations ... RETURNING id: committed at once
InsertIntegration ==
    /\ \E r \in 1..Len(adminReqs) :
           /\ adminReqs[r].pc = "insert_integration"
           /\ \/ /\ db' = [db EXCEPT !.integrations = @ \cup {newIntegrationId(r)}]
                 /\ adminReqs' = [adminReqs EXCEPT ![r] =
                                     [@ EXCEPT !.id = newIntegrationId(r),
                                               !.pc = "insert_mappings"]]
              \/ /\ adminReqs' = [adminReqs EXCEPT ![r] =
                                     [@ EXCEPT !.pc = "done", !.status = 500]]
                 /\ UNCHANGED db
    /\ UnchangedByAdmin

\* "Add this integration to all existing options", a second statement of its
\* own; a row that exists already violates the primary key, the statement
\* inserts nothing and the request ends with 500
InsertIntegrationMappings ==
    /\ \E r \in 1..Len(adminReqs) :
           /\ adminReqs[r].kind = "integration"
           /\ adminReqs[r].pc = "insert_mappings"
           /\ LET rows == integrationMappingRows(adminReqs[r].id)
              IN  IF rows \cap db.option_integrations # {}
                  THEN /\ adminReqs' = [adminReqs EXCEPT ![r] =
                                           [@ EXCEPT !.pc = "done", !.status = 500]]
                       /\ UNCHANGED db
                  ELSE /\ db' = [db EXCEPT !.option_integrations = @ \cup rows]
                       /\ adminReqs' = [adminReqs EXCEPT ![r] =
                                           [@ EXCEPT !.pc = "done", !.status = 201]]
    /\ UnchangedByAdmin

NextAdmin ==
    \/ AdminRequestArrives
    \/ AdminValidate
    \/ InsertOption
    \/ InsertAttributes
    \/ InsertOptionMappings
    \/ CommitOption
    \/ RollbackOption
    \/ InsertIntegration
    \/ InsertIntegrationMappings

SpecAdmin == InitAdmin /\ [][NextAdmin]_vars

----------------------------------------------------------------------------
(* Browser: response validation and the API client *)

\* new ValidationError(message, field); a validator either returns the
\* validated value or ends with one of these
ValidationError(message, field) ==
    [validationError |-> TRUE, message |-> message, field |-> field]

isValidationError(v) == "validationError" \in DOMAIN v

\* isNonEmptyString(data.value), isValidRating(data.rating)
validateAttributeValue(data, fieldPath) ==
    IF "value" \notin DOMAIN data \/ data.value = ""
    THEN ValidationError(<<"Missing or invalid 'value' field">>, fieldPath \o <<".value">>)
    ELSE IF "rating" \notin DOMAIN data \/ data.rating \notin {"low", "medium", "high"}
    THEN ValidationError(<<"Invalid rating: expected 'low', 'medium', or 'high'">>,
                         fieldPath \o <<".rating">>)
    ELSE [value |-> data.value, rating |-> data.rating,
          icon |-> IF "icon" \in DOMAIN data THEN data.icon ELSE ""]

\* index counts from 0 as in the source
validateOptionComparison(data, index) ==
    LET fieldPath == <<"options[", ToString(index), "]">>
        attr(key) == IF "attributes" \in DOMAIN data /\ key \in DOMAIN data.attributes
                     THEN validateAttributeValue(data.attributes[key],
                                                 fieldPath \o <<".attributes.", key>>)
                     ELSE ValidationError(<<"Expected object for attribute value">>,
                                          fieldPath \o <<".attributes.", key>>)
        keys == <<"costModel", "scalability", "complexity", "maintenance">>
        failed == SelectSeq(keys, LAMBDA key : isValidationError(attr(key)))
    IN  IF "id" \notin DOMAIN data
        THEN ValidationError(<<"Missing or invalid 'id' field">>, fieldPath \o <<".id">>)
        ELSE IF "name" \notin DOMAIN data \/ data.name = ""
        THEN ValidationError(<<"Missing or invalid 'name' field">>, fieldPath \o <<".name">>)
        ELSE IF "description" \notin DOMAIN data
        THEN ValidationError(<<"Missing 'description' field">>,
                             fieldPath \o <<".description">>)
        ELSE IF "score" \notin DOMAIN data
        THEN ValidationError(<<"Missing or invalid 'score' field">>,
                             fieldPath \o <<".score">>)
        ELSE IF "attributes" \notin DOMAIN data
        THEN ValidationError(<<"Missing 'attributes' object">>,
                             fieldPath \o <<".attributes">>)
        ELSE IF failed # <<>> THEN attr(Head(failed))
        ELSE [id |-> data.id, name |-> data.name, description |-> data.description,
              score |-> data.score,
              attributes |-> [costModel |-> attr("costModel"),
                              scalability |-> attr("scalability"),
                              complexity |-> attr("complexity"),
                              maintenance |-> attr("maintenance")]]

validateComparisonResult(data) ==
    IF "options" \notin DOMAIN data
    THEN ValidationError(<<"Missing or invalid options array">>, <<"comparison.options">>)
    ELSE IF Len(data.options) # 2
    THEN ValidationError(<<"Expected exactly 2 options, got ", ToString(Len(data.options))>>,
                         <<"comparison.options">>)
    ELSE LET opts == [i \in 1..2 |-> validateOptionComparison(data.options[i], i - 1)]
         IN  IF isValidationError(opts[1]) THEN opts[1]
             ELSE IF isValidationError(opts[2]) THEN opts[2]
             ELSE [options |-> opts,
                   matrix |-> IF "matrix" \in DOMAIN data THEN data.matrix ELSE <<>>]

\* every field is replaced by a default when it is missing
validateOptionAnalysis(data, index) ==
    [optionId |-> IF "optionId" \in DOMAIN data THEN data.optionId ELSE 0,
     optionName |-> IF "optionName" \in DOMAIN data /\ data.optionName # ""
                    THEN data.optionName ELSE "Unknown",
     strengths |-> IF "strengths" \in DOMAIN data
                   THEN SelectSeq(data.strengths, LAMBDA s : s # "") ELSE <<>>,
     weaknesses |-> IF "weaknesses" \in DOMAIN data
                    THEN SelectSeq(data.weaknesses, LAMBDA s : s # "") ELSE <<>>,
     fitScore |-> IF "fitScore" \in DOMAIN data THEN data.fitScore ELSE 0,
     fitReason |-> IF "fitReason" \in DOMAIN data THEN data.fitReason ELSE <<>>]

validateTradeOffExplanation(data) ==
    [summary |-> IF "summary" \in DOMAIN data THEN data.summary ELSE <<>>,
     optionAnalysis |->
         IF "optionAnalysis" \in DOMAIN data
         THEN [i \in 1..Len(data.optionAnalysis) |->
                  validateOptionAnalysis(data.optionAnalysis[i], i - 1)]
         ELSE <<>>,
     constraintImpact |->
         IF "constraintImpact" \in DOMAIN data
         THEN [i \in 1..Len(data.constraintImpact) |->
                  [constraint |-> data.constraintImpact[i].constraint,
                   impact |-> data.constraintImpact[i].impact]]
         ELSE <<>>]

\* a missing string becomes '' (the empty text)
validatePivotResult(data) ==
    [statement |-> IF "statement" \in DOMAIN data THEN data.statement ELSE <<>>,
     primaryFactor |-> IF "primaryFactor" \in DOMAIN data THEN data.primaryFactor ELSE "",
     secondaryFactor |-> IF "secondaryFactor" \in DOMAIN data THEN data.secondaryFactor
                         ELSE "",
     optionA |-> IF "optionA" \in DOMAIN data THEN data.optionA ELSE "",
     optionB |-> IF "optionB" \in DOMAIN data THEN data.optionB ELSE ""]

\* the aiAnalysis block as validateCompareResponse rebuilds it
validateAIAnalysis(aiObj) ==
    [summary |-> IF "summary" \in DOMAIN aiObj THEN aiObj.summary ELSE <<>>,
     recommendation |-> IF "recommendation" \in DOMAIN aiObj THEN aiObj.recommendation
                        ELSE <<>>,
     detailedAnalysis |->
         IF "detailedAnalysis" \in DOMAIN aiObj
         THEN [i \in 1..Len(aiObj.detailedAnalysis) |->
                  [optionName |-> aiObj.detailedAnalysis[i].optionName,
                   pros |-> aiObj.detailedAnalysis[i].pros,
                   cons |-> aiObj.detailedAnalysis[i].cons,
                   bestFor |-> aiObj.detailedAnalysis[i].bestFor]]
         ELSE <<>>,
     pivotStatement |-> IF "pivotStatement" \in DOMAIN aiObj THEN aiObj.pivotStatement
                        ELSE <<>>,
     confidenceScore |-> IF "confidenceScore" \in DOMAIN aiObj THEN aiObj.confidenceScore
                         ELSE 0]

validateCompareResponse(data) ==
    IF "comparison" \notin DOMAIN data
    THEN ValidationError(<<"Missing comparison data in response">>, <<"comparison">>)
    ELSE IF "explanation" \notin DOMAIN data
    THEN ValidationError(<<"Missing explanation data in response">>, <<"explanation">>)
    ELSE IF "pivot" \notin DOMAIN data
    THEN ValidationError(<<"Missing pivot data in response">>, <<"pivot">>)
    ELSE LET cmp == validateComparisonResult(data.comparison)
         IN  IF isValidationError(cmp) THEN cmp
             ELSE [comparison |-> cmp,
                   explanation |-> validateTradeOffExplanation(data.explanation),
                   pivot |-> validatePivotResult(data.pivot),
                   \* response.aiEnhanced || false, response.aiAnalysis || null
                   aiEnhanced |-> "aiEnhanced" \in DOMAIN data /\ data.aiEnhanced,
                   aiAnalysis |-> IF "aiAnalysis" \in DOMAIN data
                                  THEN validateAIAnalysis(data.aiAnalysis) ELSE None]

ERROR_MESSAGES ==
    [NETWORK_ERROR |->
        [message |-> <<"Unable to connect to the server">>, code |-> "NETWORK_ERROR",
         suggestion |-> "Check your internet connection and try again"],
     API_UNAVAILABLE |->
        [message |-> <<"The comparison service is currently unavailable">>,
         code |-> "API_UNAVAILABLE", suggestion |-> "Please try again in a few moments"],
     INVALID_RESPONSE |->
        [message |-> <<"Received unexpected data from the server">>,
         code |-> "INVALID_RESPONSE",
         suggestion |-> "Please refresh the page and try again"],
     VALIDATION_ERROR |->
        [message |-> <<"Invalid input provided">>, code |-> "VALIDATION_ERROR",
         suggestion |-> "Please check your constraint values and try again"],
     SERVER_ERROR |->
        [message |-> <<"An unexpected server error occurred">>, code |-> "SERVER_ERROR",
         suggestion |-> "Please try again later or contact support"]]

\* fetchWithErrorHandling for POST /api/compare once the server has answered:
\* the validated response, or the ApiClientError thrown
fetchWithErrorHandling(res) ==
    IF res.status = 400
    THEN [ok |-> FALSE,
          error |-> [message |-> res.body.error, code |-> res.body.code,
                     suggestion |-> ERROR_MESSAGES.VALIDATION_ERROR.suggestion]]
    ELSE IF res.status = 503
    THEN [ok |-> FALSE, error |-> ERROR_MESSAGES.API_UNAVAILABLE]
    ELSE IF res.status >= 500
    THEN [ok |-> FALSE, error |-> ERROR_MESSAGES.SERVER_ERROR]
    ELSE IF res.status # 200
    THEN [ok |-> FALSE, error |-> ERROR_MESSAGES.API_UNAVAILABLE]
    ELSE LET data == validateCompareResponse(res.body)
         IN  IF isValidationError(data)
             THEN [ok |-> FALSE,
                   error |-> [message |-> ERROR_MESSAGES.INVALID_RESPONSE.message
                                              \o <<": ">> \o data.message,
                              code |-> "INVALID_RESPONSE",
                              suggestion |-> ERROR_MESSAGES.INVALID_RESPONSE.suggestion]]
             ELSE [ok |-> TRUE, data |-> data]

----------------------------------------------------------------------------
(* Browser: the useComparison hook, what the panels show, and one browser    *)
(* talking to the POST /api/compare handler                                  *)

\* initialState of useComparison (availableOptions and availableIntegrations,
\* which runComparison neither reads nor writes, are left out)
initialState ==
    [comparison |-> None, explanation |-> None, pivot |-> None, status |-> "idle",
     error |-> None, selectedOptions |-> None, aiEnhanced |-> FALSE, aiAnalysis |-> None]

\* the first setState of runComparison
runComparisonStart(prev) == [prev EXCEPT !.status = "loading", !.error = None]

\* the setState after compare() resolved
runComparisonSuccess(prev, res) ==
    [prev EXCEPT !.comparison = res.comparison,
                 !.explanation = res.explanation,
                 !.pivot = res.pivot,
                 !.aiEnhanced = res.aiEnhanced,
                 !.aiAnalysis = res.aiAnalysis,
                 !.status = "success",
                 !.error = None]

\* faulty variant: a failure also drops the results of the last success
runComparisonFailure_ClearsResults(prev, error) ==
    [prev EXCEPT !.comparison = None, !.explanation = None, !.pivot = None,
                 !.aiEnhanced = FALSE, !.aiAnalysis = None,
                 !.status = "error",
                 !.error = [message |-> error.message \o <<". ", error.suggestion>>]]

\* the setState in the catch block: `${error.message}. ${error.suggestion}`
runComparisonFailure(prev, error) ==
    [prev EXCEPT !.status = "error",
                 !.error = [message |-> error.message \o <<". ", error.suggestion>>]]

\* Math.round(score * 100) of FitScoreBar and of the badge of OptionAnalysisCard
FitScoreBarPercentage(analysis) == MathRound(analysis.fitScore * 100, 1)

\* Math.round(score * 100) of OptionCard
OptionCardPercentage(option) == MathRound(option.score * 100, 1)

\* which of its three renderings TradeOffPanel returns
TradeOffPanelView(expl, status) ==
    IF status = "loading" THEN "skeleton"
    ELSE IF status = "idle" \/ expl = None THEN "guidance"
    ELSE "analysis"

\* which of its three renderings PivotSummary returns
PivotSummaryView(piv, status) ==
    IF status = "loading" THEN "skeleton"
    ELSE IF status = "idle" \/ piv = None THEN "guidance"
    ELSE "statement"

\* options stored by the admin API or the seed: A and B complete, C with an
\* empty value string (CreateOptionSchema: value is z.string()), D without a
\* maintenance row
UiOptionRows ==
    {OptionRow(1, "A"), OptionRow(2, "B"), OptionRow(3, "C"), OptionRow(4, "D")}

UiAttributeRows ==
    AttributeRows(1, ExampleA) \cup AttributeRows(2, ExampleB)
    \cup {IF a.attribute_type = "cost_model" THEN [a EXCEPT !.value = ""] ELSE a :
             a \in AttributeRows(3, ExampleB)}
    \cup AttributeRows(4, Profile("medium", "high", "low", "absent"))

\* the page after App has fetched the options and selected two of them
InitUI ==
    /\ ServerIdle
    /\ adminReqs = <<>>
    /\ db = [options |-> UiOptionRows,
             attributes |-> UiAttributeRows,
             weights |-> SeedWeights,
             option_integrations |-> {[option_id |-> 1, integration_id |-> 1],
                                      [option_id |-> 2, integration_id |-> 2]},
             GROQ_API_KEY |-> TRUE,
             GEMINI_API_KEY |-> TRUE]
    /\ \E ids \in {<<1, 2>>, <<1, 3>>, <<1, 4>>} :
           uiState = [initialState EXCEPT !.selectedOptions = ids]
    /\ \E pr \in Priorities, req \in {{}, {1}} :
           uiConstraints = [DEFAULT_CONSTRAINTS EXCEPT !.scalabilityPriority = pr,
                                                       !.requiredIntegrations = req]
    /\ rendered = uiConstraints

\* handleRunComparison: one of the two buttons (disabled while loading) is
\* clicked; runComparison sets 'loading' and the request reaches the server
RunComparisonStart ==
    /\ pc = "idle"
    /\ uiState.status # "loading"
    /\ uiState.selectedOptions # None
    /\ uiState' = runComparisonStart(uiState)
    /\ constraints' = rendered
    /\ optionIds' = uiState.selectedOptions
    /\ useAI' \in BOOLEAN
    /\ options' = <<>>
    /\ attributes' = {}
    /\ weights' = <<>>
    /\ optionIntegrations' = {}
    /\ comparison' = None
    /\ explanation' = None
    /\ pivot' = None
    /\ ai' = NoAI
    /\ response' = None
    /\ pc' = "validate"
    /\ UNCHANGED <<db, resolved, uiConstraints, rendered, adminReqs>>

\* the answer of the server arrives: compare() resolves or throws
RunComparisonSettles ==
    /\ pc = "done"
    /\ uiState.status = "loading"
    /\ LET result == fetchWithErrorHandling(response)
       IN  uiState' = IF result.ok THEN runComparisonSuccess(uiState, result.data)
                      ELSE runComparisonFailure(uiState, result.error)
    /\ pc' = "idle"
    /\ UNCHANGED <<db, resolved, uiConstraints, rendered, adminReqs, optionIds, options,
                   attributes, weights, optionIntegrations, constraints, comparison,
                   explanation, pivot, useAI, ai, response>>

\* fetch rejects (connection lost): NETWORK_ERROR; the request is followed no further
FetchRejects ==
    /\ pc # "idle"
    /\ uiState.status = "loading"
    /\ uiState' = runComparisonFailure(uiState, ERROR_MESSAGES.NETWORK_ERROR)
    /\ pc' = "idle"
    /\ UNCHANGED <<db, resolved, uiConstraints, rendered, adminReqs, optionIds, options,
                   attributes, weights, optionIntegrations, constraints, comparison,
                   explanation, pivot, useAI, ai, response>>

NextUI ==
    \/ RunComparisonStart
    \/ RunComparisonSettles
    \/ FetchRejects
    \/ ValidateRequest
    \/ FetchOptions
    \/ FetchRelated
    \/ RunComparison
    \/ GenerateExplanation
    \/ GeneratePivotStep
    \/ CallGroq
    \/ GroqAnswers
    \/ CallGemini
    \/ GeminiAnswers
    \/ ParseAI
    \/ SendResponse

SpecUI == InitUI /\ [][NextUI]_vars

----------------------------------------------------------------------------
(* Claims about the engine *)

\* C1: compare keeps an option if and only if requiredIntegrations is empty, or
\* the option has no IntegrationSupport row at all, or every required id has a
\* row for that option; the kept options are input options, in input order.
C1_IntegrationFiltering ==
    pc # "start" =>
        LET out == comparison.options
            req == constraints.requiredIntegrations
            rowsOf(oid) == {oi \in optionIntegrations : oi.option_id = oid}
            kept(o) == \/ req = {}
                       \/ rowsOf(o.id) = {}
                       \/ \A r \in req : \E oi \in rowsOf(o.id) : oi.integration_id = r
            pos(oid) == CHOOSE i \in 1..Len(options) : options[i].id = oid
        IN  /\ \A i \in 1..Len(options) :
                   kept(options[i]) <=> \E k \in 1..Len(out) : out[k].id = options[i].id
            /\ \A k \in 1..Len(out) :
                   \E i \in 1..Len(options) :
                       out[k].id = options[i].id /\ out[k].name = options[i].name
            /\ \A k1, k2 \in 1..Len(out) : k1 < k2 => pos(out[k1].id) < pos(out[k2].id)

\* C1 witness: with a non-empty requirement, the first option has rows but lacks
\* a required id and is dropped, the second has no row at all and is kept.
C1_Witness ==
    /\ pc = "compared"
    /\ constraints.requiredIntegrations # {}
    /\ \E oi \in optionIntegrations : oi.option_id = options[1].id
    /\ ~\E oi \in optionIntegrations : oi.option_id = options[2].id
    /\ Len(comparison.options) = 1
    /\ comparison.options[1].id = options[2].id

\* C2: the score is round(100 * sum(ratingScore * effectiveWeight) /
\* (sum(effectiveWeight) * 3)) over the attribute rows that have a weight row;
\* 0 when the total effective weight is 0; 100 when every weighted attribute is
\* rated high.
C2_ScoreFormula ==
    (pc # "start" /\ Len(comparison.options) = 1) =>
        LET o == comparison.options[1]
            score == o.score
            has(t) == /\ \E a \in attributes : a.option_id = o.id /\ a.attribute_type = t
                      /\ \E i \in 1..Len(weights) : weights[i].attribute_type = t
            row(t) == CHOOSE a \in attributes : a.option_id = o.id /\ a.attribute_type = t
            wrow(t) == weights[CHOOSE i \in 1..Len(weights) :
                                  /\ weights[i].attribute_type = t
                                  /\ \A j \in 1..(i - 1) : weights[j].attribute_type # t]
            w(t) == IF has(t) THEN calculateEffectiveWeight(wrow(t), constraints) ELSE 0
            r(t) == IF has(t) THEN RATING_SCORES[row(t).rating] ELSE 0
            S == r("cost_model") * w("cost_model") + r("scalability") * w("scalability")
                 + r("complexity") * w("complexity") + r("maintenance") * w("maintenance")
            T == w("cost_model") + w("scalability") + w("complexity") + w("maintenance")
        IN  /\ T = 0 => score = 0
            /\ T > 0 => /\ (2 * score - 1) * 3 * T <= 200 * S
                        /\ 200 * S < (2 * score + 1) * 3 * T
            /\ T < 0 => /\ (2 * score - 1) * 3 * T >= 200 * S
                        /\ 200 * S > (2 * score + 1) * 3 * T
            /\ (T # 0 /\ \A t \in AttributeTypeSet : has(t) => row(t).rating = "high")
                   => score = 100

\* C2 witness: an option with a missing attribute row and a row without a
\* weight row, whose score is rounded up from a fraction.
C2_Witness ==
    /\ pc = "compared"
    /\ weights = SingleRowWeights \/ weights = SeedWeights
    /\ Cardinality(attributes) = 3
    /\ comparison.options[1].score = 67

\* C3: every OptionComparison.score returned by compare is an integer in 0..100.
C3_ScoreBounds ==
    pc # "start" =>
        \A k \in 1..Len(comparison.options) : comparison.options[k].score \in 0..100

\* C4 as stated: given two distinct options, the option named after "choose" and
\* the one named after "otherwise choose" are different names.
C4_PivotNamesDifferOriginal ==
    (pc = "pivoted" /\ Len(comparison.options) = 2
        /\ comparison.options[1].id # comparison.options[2].id)
        => pivot.statement[6] # pivot.statement[8]

\* C4 amended: given two options with different names, the option named after
\* "choose" and the one named after "otherwise choose" are different names; each
\* is the name of one of the two options.
C4_PivotNamesDiffer ==
    (pc = "pivoted" /\ Len(comparison.options) = 2
        /\ comparison.options[1].name # comparison.options[2].name)
        => /\ pivot.statement[6] # pivot.statement[8]
           /\ {pivot.statement[6], pivot.statement[8]}
                  = {comparison.options[1].name, comparison.options[2].name}

\* C4 witness: differently named options where the first ranks higher on the
\* secondary attribute and the primary ranks tie (the branch that resets the
\* "otherwise" recommendation).
C4_Witness ==
    /\ pc = "pivoted"
    /\ weights = SeedWeights
    /\ constraints.scalabilityPriority = "high"
    /\ comparison.options[1].name # comparison.options[2].name
    /\ comparison.options[1].attributes.scalability.rating
           = comparison.options[2].attributes.scalability.rating
    /\ comparison.options[1].attributes.costModel.rating = "high"
    /\ comparison.options[2].attributes.costModel.rating = "low"
    /\ pivot.statement[6] = "A"
    /\ pivot.statement[8] = "B"

ExampleInputs ==
    /\ options = <<OptionRow(1, "A"), OptionRow(2, "B")>>
    /\ attributes = AttributeRows(1, ExampleA) \cup AttributeRows(2, ExampleB)
    /\ constraints.scalabilityPriority = "high"
    /\ constraints.requiredIntegrations = {}

ExampleOutcome ==
    /\ comparison.options[1].score > comparison.options[2].score
    /\ pivot.primaryFactor = "scalability"
    /\ pivot.statement = <<"If ", "scalability", " matters more than ", "cost efficiency",
                           ", choose ", "A", "; otherwise choose ", "B">>

\* C6 as stated: the example with default weights 0.3 / 0.25 / 0.25 / 0.2 and
\* high-priority modifiers 0.8 for cost_model and 1.5 for scalability gives
\* score(A) > score(B), primaryFactor scalability and the statement "If
\* scalability matters more than cost efficiency, choose A; otherwise choose B".
C6_WorkedExampleOriginal ==
    (pc = "pivoted" /\ ExampleInputs
        /\ Len(weights) = 4
        /\ \A i \in 1..4 : /\ weights[i].attribute_type = SeedWeights[i].attribute_type
                           /\ weights[i].default_weight = SeedWeights[i].default_weight
        /\ weights[1].scalability_high_modifier = 80
        /\ weights[2].scalability_high_modifier = 150)
        => ExampleOutcome

\* C6 amended: the same with the high-priority modifiers of complexity and
\* maintenance being the seeded 0.9 as well.
C6_WorkedExample ==
    (pc = "pivoted" /\ ExampleInputs /\ weights = SeedWeights) => ExampleOutcome

\* C6 witness: the example has run with the seeded weights; the scores are 71 and 62.
C6_Witness ==
    /\ pc = "pivoted"
    /\ ExampleInputs
    /\ weights = SeedWeights
    /\ comparison.options[1].score = 71
    /\ comparison.options[2].score = 62

\* C7: for two options the summary is the "closely matched" sentence or the
\* "stronger fit ... However, <lower> may be preferable if" sentence, and the
\* statement is "If ... choose X; otherwise choose Y" with X and Y names of the
\* compared options: neither text names an option as better without a condition.
C7_NoAbsoluteWinner ==
    (pc = "pivoted" /\ Len(comparison.options) = 2) =>
        LET a == comparison.options[1]
            b == comparison.options[2]
            names == {a.name, b.name}
            sm == explanation.summary
            st == pivot.statement
            close ==
                /\ Len(sm) = 5
                /\ sm[1] = a.name /\ sm[2] = " and " /\ sm[3] = b.name
                /\ sm[4] = " are closely matched under your current constraints. "
                /\ sm[5] = "The decision depends on which specific attributes matter most to your use case."
            stronger(h, l) ==
                /\ h.score > l.score
                /\ Len(sm) = 13
                /\ sm[1] = "Based on your constraints, " /\ sm[2] = h.name
                /\ sm[3] = " shows a stronger fit (score: " /\ sm[4] = ToString(h.score)
                /\ sm[5] = ") " /\ sm[6] = "compared to " /\ sm[7] = l.name
                /\ sm[8] = " (score: " /\ sm[9] = ToString(l.score)
                /\ sm[10] = "). However, " /\ sm[11] = l.name
                /\ sm[12] = " may be preferable "
                /\ sm[13] = "if certain attributes are more critical to your specific needs."
        IN  /\ close \/ stronger(a, b) \/ stronger(b, a)
            /\ Len(st) = 8
            /\ st[1] = "If " /\ st[3] = " matters more than " /\ st[5] = ", choose "
            /\ st[7] = "; otherwise choose "
            /\ st[6] \in names /\ st[8] \in names

\* C7 witness: two options whose scores differ by 10 or more, the second one
\* scoring higher.
C7_Witness ==
    /\ pc = "pivoted"
    /\ Len(comparison.options) = 2
    /\ comparison.options[2].score >= comparison.options[1].score + 10
    /\ explanation.summary[2] = "B"
    /\ explanation.summary[11] = "A"

----------------------------------------------------------------------------
(* Claims about the /api/compare handler *)

\* C8: when fewer than 2 options survive the integration filter, compare has
\* returned its result, the handler answers 400 VALIDATION_ERROR, no success
\* response is sent, and neither the explanation, the pivot nor the AI step is
\* reached.
C8_InsufficientOptions ==
    (comparison # None /\ Len(comparison.options) < 2) =>
        /\ pc = "done"
        /\ response # None
        /\ response.status = 400
        /\ response.body.code = "VALIDATION_ERROR"
        /\ explanation = None
        /\ pivot = None
        /\ ai = NoAI

\* C8 witness: exactly one option survived a non-empty requirement and the
\* request was answered.
C8_Witness ==
    /\ pc = "done"
    /\ comparison # None
    /\ Len(comparison.options) = 1
    /\ constraints.requiredIntegrations # {}
    /\ response.status = 400

\* C9: with useAI=true, when the AI step gives no result (no API key, HTTP
\* error, exception, no content, or a reply that is not parsable or lacks
\* summary, recommendation or detailedAnalysis), the request is answered 200
\* with exactly the explanation and pivot of generate / generatePivot,
\* aiEnhanced false and no aiAnalysis; no provider is called twice.
C9_AIFallback ==
    LET noReply == /\ ai.aiResponse = None
                   /\ ai.groq \in ProviderFailures \cup {"no_key"}
                   /\ ai.gemini \in ProviderFailures \cup {"no_key"}
        badReply == /\ ai.aiResponse # None
                    /\ \/ ai.aiResponse.json # "object"
                       \/ \E f \in {"summary", "recommendation", "detailedAnalysis"} :
                              f \notin DOMAIN ai.aiResponse.obj
    IN  (pc = "done" /\ useAI /\ (noReply \/ badReply)) =>
            /\ response.status = 200
            /\ DOMAIN response.body = {"comparison", "explanation", "pivot", "aiEnhanced"}
            /\ response.body.aiEnhanced = FALSE
            /\ response.body.comparison
                   = compare(options, attributes, weights, optionIntegrations, constraints)
            /\ response.body.explanation = generate(response.body.comparison, constraints)
            /\ response.body.pivot
                   = generatePivot(response.body.comparison, constraints, weights)
            /\ ai.groqCalls <= 1
            /\ ai.geminiCalls <= 1

\* C9 witness: Groq failed, Gemini replied with an object lacking
\* recommendation, and the request was answered.
C9_Witness ==
    /\ pc = "done"
    /\ useAI
    /\ ai.groq = "http_error"
    /\ ai.gemini = "replied"
    /\ ai.aiResponse.json = "object"
    /\ "recommendation" \notin DOMAIN ai.aiResponse.obj
    /\ response.status = 200

\* C10: a request with useAI=true that passed validation and filtering is
\* eventually answered, whatever the AI provider does.
C10_EventuallyAnswered ==
    (useAI /\ pc = "call_groq") ~> (pc = "done" /\ response # None)

\* C11: every 200 response of /api/compare, AI-enhanced or not, has
\* comparison.options, comparison.matrix, explanation.summary, one optionAnalysis
\* entry per surviving option, explanation.constraintImpact, and a pivot with
\* statement, primaryFactor, secondaryFactor, optionA and optionB all present.
C11_ResponseComplete ==
    (pc = "done" /\ response.status = 200) =>
        LET b == response.body
        IN  /\ {"comparison", "explanation", "pivot"} \subseteq DOMAIN b
            /\ {"options", "matrix"} \subseteq DOMAIN b.comparison
            /\ {"summary", "optionAnalysis", "constraintImpact"} \subseteq DOMAIN b.explanation
            /\ Len(b.explanation.optionAnalysis) = Len(b.comparison.options)
            /\ \A i \in 1..Len(b.comparison.options) :
                   b.explanation.optionAnalysis[i].optionId = b.comparison.options[i].id
            /\ {"statement", "primaryFactor", "secondaryFactor", "optionA", "optionB"}
                   \subseteq DOMAIN b.pivot

C13_DatabaseUnreachable ==
    (pc = "done" /\ "code" \in DOMAIN response.body
        /\ response.body.code \in {"DATABASE_CONNECTION_ERROR", "DATABASE_ERROR"})
        => response.status = 503

\* C14: for every weight row, the effective weight returned by
\* getEffectiveWeights is default_weight times the row's modifier for the
\* scalabilityPriority of the constraints, for every modifier value including 0.
C14_EffectiveWeight ==
    pc = "resolved" =>
        \A i \in 1..Len(weights) :
            LET p == constraints.scalabilityPriority
                modifier == IF p = "low" THEN weights[i].scalability_low_modifier
                            ELSE IF p = "medium" THEN weights[i].scalability_medium_modifier
                            ELSE weights[i].scalability_high_modifier
            IN  \E k \in 1..Len(resolved.effectiveWeights) :
                    /\ resolved.effectiveWeights[k].attr = weights[i].attribute_type
                    /\ resolved.effectiveWeights[k].weight
                           = weights[i].default_weight * modifier

\* C15: getPrimaryAttribute returns the attribute type of the highest effective
\* weight; among several types sharing the highest effective weight, the one
\* first in the weights list.
C15_PrimaryAttribute ==
    (pc = "resolved" /\ weights # <<>>) =>
        LET ew == resolved.effectiveWeights
        IN  \E i \in 1..Len(ew) :
                /\ \A j \in 1..Len(ew) : ew[j].weight <= ew[i].weight
                /\ \A j \in 1..(i - 1) : ew[j].weight < ew[i].weight
                /\ resolved.primaryAttribute = ew[i].attr

C17_PivotUnableOriginal ==
    (pc \in {"pivoted", "resolved"} /\ Len(comparison.options) < 2) =>
        /\ pivot.statement
               = <<"Unable to generate pivot statement with fewer than two options.">>
        /\ pivot.primaryFactor = "N/A"
        /\ pivot.secondaryFactor = "N/A"
        /\ pivot.optionA = "N/A"
        /\ pivot.optionB = "N/A"

\* C17 amended: with 0 options or exactly 1 option generatePivot returns the
\* "Unable to generate pivot statement" statement with "N/A" in primaryFactor,
\* secondaryFactor and optionB; optionA is "N/A" for 0 options and, for exactly
\* 1 option, the name of that option ("N/A" if the name is empty).
C17_PivotUnable ==
    (pc \in {"pivoted", "resolved"} /\ Len(comparison.options) < 2) =>
        /\ pivot.statement
               = <<"Unable to generate pivot statement with fewer than two options.">>
        /\ pivot.primaryFactor = "N/A"
        /\ pivot.secondaryFactor = "N/A"
        /\ pivot.optionB = "N/A"
        /\ Len(comparison.options) = 0 => pivot.optionA = "N/A"
        /\ (Len(comparison.options) = 1 /\ comparison.options[1].name # "")
               => pivot.optionA = comparison.options[1].name
        /\ (Len(comparison.options) = 1 /\ comparison.options[1].name = "")
               => pivot.optionA = "N/A"

\* C17 witness: exactly one option, named B, survived the filter.
C17_Witness ==
    /\ pc = "pivoted"
    /\ Len(comparison.options) = 1
    /\ comparison.options[1].name = "B"
    /\ pivot.optionA = "B"
    /\ pivot.optionB = "N/A"

\* C18: with two options, the summary is the "closely matched" sentence naming
\* both when the scores differ by less than 10; otherwise it names the strictly
\* higher-scoring option first, gives both scores and says the lower-scoring
\* option "may be preferable"; with fewer than 2 options it is the
\* "Insufficient options" sentence.
C18_SummaryRule ==
    pc \in {"explained", "pivoted", "resolved"} =>
        LET opts == comparison.options
            sm == explanation.summary
        IN  IF Len(opts) < 2
            THEN sm = <<"Insufficient options available for comparison based on current constraints.">>
            ELSE LET a == opts[1]
                     b == opts[2]
                     d == IF a.score >= b.score THEN a.score - b.score
                          ELSE b.score - a.score
                 IN  IF d < 10
                     THEN sm = <<a.name, " and ", b.name,
                                 " are closely matched under your current constraints. ",
                                 "The decision depends on which specific attributes matter most to your use case.">>
                     ELSE \E h \in {a, b} : \E l \in {a, b} :
                              /\ h.score > l.score
                              /\ sm = <<"Based on your constraints, ", h.name,
                                        " shows a stronger fit (score: ", ToString(h.score),
                                        ") ", "compared to ", l.name, " (score: ",
                                        ToString(l.score), "). However, ", l.name,
                                        " may be preferable ",
                                        "if certain attributes are more critical to your specific needs.">>

\* C18 witness: two options survived, the second scores at least 10 more than
\* the first and is named first in the summary.
C18_Witness ==
    /\ pc = "explained"
    /\ Len(comparison.options) = 2
    /\ comparison.options[2].score - comparison.options[1].score >= 10
    /\ explanation.summary[2] = comparison.options[2].name
    /\ explanation.summary[12] = " may be preferable "

\* C20: for two options, the option ranking strictly higher on the primary
\* attribute is named after "choose" and the other after "otherwise choose";
\* when the primary ranks tie, the option ranking strictly higher on the
\* secondary attribute is named after "otherwise choose".
C20_RecommendationAssignment ==
    (pc = "pivoted" /\ Len(comparison.options) = 2
        /\ comparison.options[1].name # comparison.options[2].name
        /\ getPrimaryAttribute(weights, constraints) \in AttributeTypeSet
        /\ getSecondaryAttribute(weights, constraints) \in AttributeTypeSet) =>
        LET a == comparison.options[1]
            b == comparison.options[2]
            key(t) == IF t = "cost_model" THEN "costModel" ELSE t
            p == key(getPrimaryAttribute(weights, constraints))
            s == key(getSecondaryAttribute(weights, constraints))
            rank(o, k) == IF o.attributes[k].rating = "low" THEN 1
                          ELSE IF o.attributes[k].rating = "medium" THEN 2 ELSE 3
            X == pivot.statement[6]
            Y == pivot.statement[8]
        IN  /\ rank(a, p) > rank(b, p) => (X = a.name /\ Y = b.name)
            /\ rank(b, p) > rank(a, p) => (X = b.name /\ Y = a.name)
            /\ (rank(a, p) = rank(b, p) /\ rank(a, s) > rank(b, s)) => Y = a.name
            /\ (rank(a, p) = rank(b, p) /\ rank(b, s) > rank(a, s)) => Y = b.name

----------------------------------------------------------------------------
(* Pivot: secondary attribute and "otherwise" target *)

\* C21: in generatePivot the secondary attribute is a type different from the
\* primary one: the non-primary type with the highest effective weight
\* (first seen on ties), cost_model when no non-primary weight is positive.
\* This is to hold for every weights list (a single row, cost_model primary,
\* non-primary weights all 0).
C21_SecondaryAttribute ==
    (pc = "pivoted" /\ Len(comparison.options) = 2) =>
        LET primaryAttr == getPrimaryAttribute(weights, constraints)
            secondaryAttr == getSecondaryAttribute(weights, constraints)
            entries == getEffectiveWeights(weights, constraints)
            others == {i \in 1..Len(entries) : entries[i].attr # primaryAttr}
        IN  /\ pivot.secondaryFactor = displayName(secondaryAttr)
            /\ secondaryAttr # primaryAttr
            /\ pivot.secondaryFactor # pivot.primaryFactor
            /\ \A i \in others :
                   entries[i].weight > 0 =>
                       \E j \in others :
                           /\ entries[j].attr = secondaryAttr
                           /\ entries[j].weight >= entries[i].weight
                           /\ \A k \in others :
                                  k < j => entries[k].weight < entries[j].weight

----------------------------------------------------------------------------
(* Explanation: strengths, weaknesses, fit reason *)

\* C23: for each option, strengths is the list of the canned phrases of exactly
\* the attributes rated high, in the order cost_model, scalability, complexity,
\* maintenance, or the single phrase "balanced performance across attributes"
\* when none is high; weaknesses likewise from the attributes rated low, with
\* fallback "no significant weaknesses identified". Neither list is empty and
\* a fallback phrase never stands beside another phrase.
C23_StrengthsWeaknesses ==
    (pc \in {"explained", "pivoted", "resolved"}) =>
        \A i \in 1..Len(comparison.options) :
            LET o == comparison.options[i]
                an == explanation.optionAnalysis[i]
                rated(r) == SelectSeq(AttributeTypes, LAMBDA t :
                                \E a \in attributes : /\ a.option_id = o.id
                                                      /\ a.attribute_type = t
                                                      /\ a.rating = r)
                phrases(r) == [k \in 1..Len(rated(r)) |->
                                  RATING_DESCRIPTIONS[rated(r)[k]][r]]
                strongFallback == "balanced performance across attributes"
                weakFallback == "no significant weaknesses identified"
            IN  /\ an.optionId = o.id
                /\ an.strengths = IF rated("high") = <<>> THEN <<strongFallback>>
                                  ELSE phrases("high")
                /\ an.weaknesses = IF rated("low") = <<>> THEN <<weakFallback>>
                                   ELSE phrases("low")
                /\ Len(an.strengths) >= 1
                /\ Len(an.weaknesses) >= 1
                /\ (\E k \in 1..Len(an.strengths) : an.strengths[k] = strongFallback)
                       => Len(an.strengths) = 1
                /\ (\E k \in 1..Len(an.weaknesses) : an.weaknesses[k] = weakFallback)
                       => Len(an.weaknesses) = 1

\* C23 witness: an option with two attributes rated high (cost_model and
\* maintenance), none rated low and one attribute row missing.
C23_Witness ==
    /\ pc = "explained"
    /\ Len(comparison.options) = 1
    /\ \E a \in attributes : a.attribute_type = "cost_model" /\ a.rating = "high"
    /\ \E a \in attributes : a.attribute_type = "maintenance" /\ a.rating = "high"
    /\ \E a \in attributes : a.attribute_type = "scalability" /\ a.rating = "medium"
    /\ ~ \E a \in attributes : a.attribute_type = "complexity"
    /\ explanation.optionAnalysis[1].strengths
           = <<"excellent cost efficiency", "minimal maintenance burden">>
    /\ explanation.optionAnalysis[1].weaknesses
           = <<"no significant weaknesses identified">>

\* C24: the fit reason is the text of the first matching rule in the order
\* (a) scalabilityPriority high and scalability rated high, (b) priority low
\* and cost_model rated high, (c) score >= 70, (d) score >= 50, (e) otherwise;
\* a later rule's text appears only if every earlier condition is false.
C24_FitReasonOrder ==
    (pc \in {"explained", "pivoted", "resolved"}) =>
        \A i \in 1..Len(comparison.options) :
            LET o == comparison.options[i]
                reason == explanation.optionAnalysis[i].fitReason
                ruleA == /\ constraints.scalabilityPriority = "high"
                         /\ o.attributes.scalability.rating = "high"
                ruleB == /\ constraints.scalabilityPriority = "low"
                         /\ o.attributes.costModel.rating = "high"
                ruleC == o.score >= 70
                ruleD == o.score >= 50
                textA == <<"Strong fit for high-scalability requirements with ",
                           "high", " scalability rating">>
                textB == <<"Well-suited for cost-conscious scenarios with excellent cost efficiency">>
                textC == <<"Good overall fit based on weighted attribute scores">>
                textD == <<"Moderate fit with some trade-offs to consider">>
                textE == <<"May require careful consideration of trade-offs for your constraints">>
            IN  /\ reason \in {textA, textB, textC, textD, textE}
                /\ reason = textA <=> ruleA
                /\ reason = textB <=> (~ruleA /\ ruleB)
                /\ reason = textC <=> (~ruleA /\ ~ruleB /\ ruleC)
                /\ reason = textD <=> (~ruleA /\ ~ruleB /\ ~ruleC /\ ruleD)
                /\ reason = textE <=> (~ruleA /\ ~ruleB /\ ~ruleC /\ ~ruleD)

\* C24 witness: rule (b) matches an option whose score is 70 or more, so the
\* text of rule (b) is returned although rule (c) holds as well.
C24_Witness ==
    /\ pc = "explained"
    /\ Len(comparison.options) = 1
    /\ constraints.scalabilityPriority = "low"
    /\ comparison.options[1].attributes.costModel.rating = "high"
    /\ comparison.options[1].score >= 70
    /\ explanation.optionAnalysis[1].fitReason
           = <<"Well-suited for cost-conscious scenarios with excellent cost efficiency">>

----------------------------------------------------------------------------
(* Missing attribute rows *)

\* C25: when an option has no attribute row for one of the four types, its
\* display record still has the four attribute fields, the missing one being
\* value "N/A" with rating medium; the (type, option) pair is left out of the
\* matrix; the missing type adds nothing to the score (the score is the one
\* obtained when the weight rows of the missing types are taken away); compare
\* returns a result whatever attribute or weight rows are missing.
C25_MissingAttribute ==
    (pc # "start") =>
        /\ comparison # None
        /\ DOMAIN comparison.matrix = AttributeTypeSet
        /\ \A i \in 1..Len(comparison.options) :
               LET o == comparison.options[i]
                   rows == {a \in attributes : a.option_id = o.id}
                   missing == {t \in AttributeTypeSet :
                                  ~ \E a \in rows : a.attribute_type = t}
                   field(t) == o.attributes[attrKeyMap[t]]
               IN  /\ DOMAIN o.attributes
                          = {"costModel", "scalability", "complexity", "maintenance"}
                   /\ \A t \in missing :
                          /\ field(t).value = "N/A"
                          /\ field(t).rating = "medium"
                          /\ o.id \notin DOMAIN comparison.matrix[t]
                   /\ \A t \in AttributeTypeSet \ missing :
                          /\ o.id \in DOMAIN comparison.matrix[t]
                          /\ comparison.matrix[t][o.id] = field(t)
                   /\ o.score = calculateOptionScore(rows,
                                    SelectSeq(weights, LAMBDA w :
                                        w.attribute_type \notin missing),
                                    constraints)

\* C25 witness: the scalability row is missing, the other three are rated high
\* and all four types have a weight row: the display record shows scalability
\* as N/A / medium and the score is 100, not the one a medium rating would give.
C25_Witness ==
    /\ pc = "compared"
    /\ weights = SeedWeights
    /\ Len(comparison.options) = 1
    /\ ~ \E a \in attributes : a.attribute_type = "scalability"
    /\ \A t \in {"cost_model", "complexity", "maintenance"} :
           \E a \in attributes : a.attribute_type = t /\ a.rating = "high"
    /\ comparison.options[1].attributes.scalability.value = "N/A"
    /\ comparison.options[1].attributes.scalability.rating = "medium"
    /\ comparison.options[1].score = 100
    /\ comparison.matrix["scalability"] = <<>>

----------------------------------------------------------------------------
(* Claims about the browser *)

\* C30: starting from constraints with budgetMin <= budgetMax, after any
\* sequence of budget-minimum and budget-maximum changes (the updaters of
\* useConstraints or the slider handlers of ConstraintPanel) interleaved with
\* scalability changes and integration toggles, budgetMin <= budgetMax holds
\* in the hook state and in the constraints the panel was rendered with, so
\* the constraints sent to /api/compare pass the budgetMax >= budgetMin check.
C30_BudgetInvariant ==
    (uiConstraints # None /\ rendered # None) =>
        \A c \in {uiConstraints, rendered} :
            /\ c.budgetMin <= c.budgetMax
            /\ \A issue \in ConstraintsIssues(c) :
                   issue.path \notin {"constraints.budgetMin", "constraints.budgetMax"}

\* C30 witness: the minimum was moved above the maximum the panel still shows,
\* and the maximum went up with it.
C30_Witness ==
    /\ uiConstraints # None
    /\ rendered # None
    /\ rendered.budgetMin = 0
    /\ rendered.budgetMax = 25000
    /\ uiConstraints.budgetMin = 75000
    /\ uiConstraints.budgetMax = 75000

----------------------------------------------------------------------------
(* Claims about the admin API *)

\* C28: starting with every option mapped to every integration, once the
\* admin "create option" and "create integration" requests of any
\* interleaving have all completed successfully (201), every option has an
\* option_integrations row for every integration, so compare filters no option
\* out for a required integration.
C28_AdminMapping ==
    (\A r \in 1..Len(adminReqs) : adminReqs[r].status = 201) =>
        \A o \in db.options :
            \A i \in db.integrations :
                /\ [option_id |-> o.id, integration_id |-> i] \in db.option_integrations
                /\ optionSupportsRequiredIntegrations(o.id, db.option_integrations, {i})

\* C26: for every option of a successful comparison, the percentage shown by
\* OptionCard and by the FitScoreBar of TradeOffPanel equals the score the
\* scoring engine computed and lies in 0..100.
C26_DisplayedFitScore ==
    (uiState # None /\ uiState.status = "success") =>
        \A i \in 1..Len(uiState.comparison.options) :
            LET shownOnCard == OptionCardPercentage(uiState.comparison.options[i])
                shownOnBar == FitScoreBarPercentage(uiState.explanation.optionAnalysis[i])
                engineScore == comparison.options[i].score
            IN  /\ shownOnCard = engineScore
                /\ shownOnBar = engineScore
                /\ shownOnCard \in 0..100
                /\ shownOnBar \in 0..100

\* C27: every 200 response of POST /api/compare for two stored options (also
\* options with an empty attribute value string or a missing attribute row)
\* is accepted by validateCompareResponse: the browser never turns it into an
\* INVALID_RESPONSE error.
C27_ResponseAccepted ==
    /\ (pc = "done" /\ response.status = 200)
           => ~isValidationError(validateCompareResponse(response.body))
    /\ (uiState # None /\ uiState.error # None)
           => uiState.error.message[1] # ERROR_MESSAGES.INVALID_RESPONSE.message[1]

\* C29: a failing runComparison sets status 'error' and an error message and
\* leaves comparison, explanation, pivot, aiEnhanced and aiAnalysis as the
\* last successful run left them; the start of runComparison sets 'loading'
\* and clears the error without touching those results; only a success
\* replaces them.
C29_FailureFrame ==
    [][LET results(s) == <<s.comparison, s.explanation, s.pivot, s.aiEnhanced,
                          s.aiAnalysis>>
       IN  (uiState # None /\ uiState' # None) =>
               /\ (uiState.status = "loading" /\ uiState'.status = "error")
                      => /\ uiState'.error # None
                         /\ results(uiState') = results(uiState)
               /\ (uiState.status # "loading" /\ uiState'.status = "loading")
                      => /\ uiState'.error = None
                         /\ results(uiState') = results(uiState)
               /\ (results(uiState') # results(uiState))
                      => /\ uiState.status = "loading"
                         /\ uiState'.status = "success"
                         /\ uiState'.error = None]_vars

\* C29 witness: a run failed after an earlier one had succeeded: status
\* 'error' with a message, the earlier results still in the state and still
\* shown by TradeOffPanel and PivotSummary.
C29_Witness ==
    /\ uiState # None
    /\ uiState.status = "error"
    /\ uiState.error # None
    /\ uiState.comparison # None
    /\ uiState.explanation # None
    /\ uiState.pivot # None
    /\ uiState.aiEnhanced
    /\ uiState.aiAnalysis # None
    /\ TradeOffPanelView(uiState.explanation, uiState.status) = "analysis"
    /\ PivotSummaryView(uiState.pivot, uiState.status) = "statement"

====
